---- MODULE Spec2Model ----
(***************************************************************************)
(* A model of proxytest: the request lifecycle (request.py), the parallel  *)
(* dispatcher (parallel.py, backends/simple.py), the Runner (proxytest.py) *)
(* and the backend registry (backend.py).                                  *)
(*                                                                         *)
(* Python's None is the empty tuple and a value x that is present is <<x>>, *)
(* so that optional numbers and optional strings are compared safely.       *)
(***************************************************************************)
EXTENDS Integers, Sequences, FiniteSets, TLC

VARIABLES
    status,       \* status[i]: the RequestStatus of the i-th RequestInfo of context.requests
    now,          \* the value time.monotonic() returns
    lastCall,     \* the last RequestInfo.start()/finish() call and how it ended
    max_workers,  \* context.max_workers
    disp,         \* where process_requests is
    idx,          \* number of records the for loop of process_requests has taken
    queue,        \* the executor's work queue (record indices, FIFO)
    threads,      \* number of worker threads the executor has created
    unit,         \* unit[i]: the callback invocation(s) for record i
    rpc,          \* where the Runner is
    spc,          \* where the backend processor called by run_once is, and the records
                  \* whose status object was made during this call (by start())
    start_time,   \* Runner.start_time
    failed_count, \* Runner.failed_count
    ran_count,    \* Runner.ran_count
    cycles,       \* number of run_once calls made so far
    completed,    \* number of run_once calls that returned normally
    repeat,       \* bool(Runner.repeat_seconds)
    backendName,  \* Runner.backend.name
    excOut,       \* the exception that left run_once / run, if any
    exit_code,    \* what run_from_command_line returned, if it has
    REGISTRY,     \* backend.REGISTRY, a dict: the set of its (name, processor) items
    SUGGESTED_PACKAGES, \* backend.SUGGESTED_PACKAGES
    lastReg,      \* the last registry call and how it ended
    sysModules,   \* per backend module: absent from sys.modules, imported, or flagged
    installed,    \* what the interpreter offers: third-party packages, async syntax
    firstPass,    \* the result of the last discovery pass made on an empty registry
    options,      \* the options object handed to Runner(...), and how it came about
    proxy_url,    \* the string passed to expand_proxy_url, as its characters
    proxies       \* list(expand_proxy_url(proxy_url)): the URLs, or the exception

recVars  == <<status, now, lastCall>>
dispVars == <<max_workers, disp, idx, queue, threads, unit>>
runVars  == <<rpc, spc, start_time, failed_count, ran_count, cycles, completed,
              repeat, backendName, excOut, exit_code>>
regVars  == <<REGISTRY, SUGGESTED_PACKAGES, lastReg, sysModules, installed, firstPass>>
optVars  == <<options, proxy_url, proxies>>
vars     == <<recVars, dispVars, runVars, regVars, optVars>>

----------------------------------------------------------------------------
(* Bounds of the model *)

MaxTime == 3      \* time.monotonic() takes the values 1..MaxTime
MaxRecords == 2   \* a batch holds 0..MaxRecords records
MaxCycles == 2    \* the Runner starts at most MaxCycles cycles
MaxBatch == 3     \* a batch handed to a bounded pool holds 0..MaxBatch records
MaxSuggested == 2 \* find_backends is called while SUGGESTED_PACKAGES has at most this length
MaxArgLen == 2    \* the value of --workers on the command line has at most this many characters
MaxWorkers == 2   \* an options object built by hand has workers in -MaxWorkers..MaxWorkers
MaxPort == 3      \* the ports written in a proxy string are 0..MaxPort
MaxNumber == 2    \* options.number (--number) is 0..MaxNumber
MaxProxies == 2   \* options.proxies holds 1..MaxProxies proxy strings

----------------------------------------------------------------------------
(* Python values *)

None == <<>>
Some(x) == <<x>>

\* bool(x) of an optional number: None and 0 are falsy
NumTruthy(o) == o # None /\ o[1] # 0

\* The objects a backend can pass as finish(error=...): None, a str, an Exception.
ErrorArgs ==
    { [kind |-> "none", text |-> ""],
      [kind |-> "str",  text |-> ""],
      [kind |-> "exc",  text |-> ""],
      [kind |-> "exc",  text |-> "boom"] }
NoError == [kind |-> "none", text |-> ""]

\* bool(error): None and '' are falsy, an Exception instance is always truthy
ObjTruthy(e) ==
    CASE e.kind = "none" -> FALSE
      [] e.kind = "str"  -> e.text # ""
      [] e.kind = "exc"  -> TRUE

\* str(error)
PyStr(e) == e.text

\* repr(error), for the values str() renders as ''
PyRepr(e) == IF e.kind = "exc" THEN "Exception(" \o e.text \o ")" ELSE "'" \o e.text \o "'"

ResultArgs == { None, Some("body") }
StatusCodeArgs == { None, Some(200) }

\* What a lifecycle hook (config.start_callback / config.end_callback) does:
\* "unset" is no callback configured, "returns" and "raises" are a callable's outcomes.
HookBehaviours == { "unset", "returns", "raises" }

----------------------------------------------------------------------------
(* Python strings: a str is the sequence of its characters *)

Digits == <<"0", "1", "2", "3", "4", "5", "6", "7", "8", "9">>

IsDigit(c) == \E d \in 1..Len(Digits) : Digits[d] = c

DigitValue(c) == (CHOOSE d \in 1..Len(Digits) : Digits[d] = c) - 1

\* The number a string of decimal digits denotes
RECURSIVE DigitsValue(_)
DigitsValue(s) ==
    IF s = <<>> THEN 0
    ELSE Len(Digits) * DigitsValue(SubSeq(s, 1, Len(s) - 1)) + DigitValue(s[Len(s)])

\* int(s) of a str: an optional sign and at least one digit, else ValueError
\* (white space and underscores are not among the characters modelled)
Unsigned(s) == IF s # <<>> /\ s[1] \in {"-", "+"} THEN Tail(s) ELSE s
PyIntOk(s) == Unsigned(s) # <<>> /\ \A k \in 1..Len(Unsigned(s)) : IsDigit(Unsigned(s)[k])
PyInt(s) ==
    IF s # <<>> /\ s[1] = "-" THEN 0 - DigitsValue(Unsigned(s)) ELSE DigitsValue(Unsigned(s))

\* str(n) of an int n >= 0
RECURSIVE PyStrOfNat(_)
PyStrOfNat(n) ==
    IF n < Len(Digits) THEN <<Digits[n + 1]>>
    ELSE PyStrOfNat(n \div Len(Digits)) \o <<Digits[(n % Len(Digits)) + 1]>>

\* s.find(c) + 1: the place of the first c in s, 0 when there is none
IndexOf(s, c) ==
    IF \E k \in 1..Len(s) : s[k] = c
    THEN CHOOSE k \in 1..Len(s) : s[k] = c /\ \A j \in 1..(k - 1) : s[j] # c
    ELSE 0

\* s.startswith(prefix)
StartsWith(s, prefix) == Len(s) >= Len(prefix) /\ SubSeq(s, 1, Len(prefix)) = prefix

\* s[:k] and s[k-1:], counting characters from 1
Upto(s, k) == SubSeq(s, 1, k)
From(s, k) == SubSeq(s, k, Len(s))

\* s.split(c, 1): the parts before and after the first c; unpacking into two
\* names raises ValueError when there is no c
CanSplit(s, c) == IndexOf(s, c) # 0
Before(s, c) == Upto(s, IndexOf(s, c) - 1)
After(s, c) == From(s, IndexOf(s, c) + 1)

\* The strings of at most n characters over the characters chars
StringsUpTo(chars, n) == UNION { [1..k -> chars] : k \in 0..n }

----------------------------------------------------------------------------
(* request.py: RequestStatus and RequestInfo *)

\* RequestStatus.__init__
RequestStatus ==
    [started |-> None, finished |-> None, error |-> None, result |-> None,
     status_code |-> None]

\* RequestStatus.succeeded
succeeded(st) == NumTruthy(st.finished) /\ st.error = None

\* RequestStatus.__str__ : the lifecycle state of a record
StateOf(st) ==
    IF ~NumTruthy(st.started) THEN "unstarted"
    ELSE IF ~NumTruthy(st.finished) THEN "running"
    ELSE "finished"

\* RequestStatus.start: assert not self.finished
StatusStartAssert(st) == ~NumTruthy(st.finished)

\* RequestStatus.start
StatusStart(st, t) ==
    IF StatusStartAssert(st)
    THEN [status |-> [st EXCEPT !.started = Some(t)], outcome |-> "ok"]
    ELSE [status |-> st, outcome |-> "AssertionError"]

\* RequestStatus.finish: assert self.started
StatusFinishAssert(st) == NumTruthy(st.started)

\* RequestStatus.finish: self.error = None if not error else (str(error) or repr(error))
ErrorText(error) ==
    IF ~ObjTruthy(error) THEN None
    ELSE IF PyStr(error) # "" THEN Some(PyStr(error))
    ELSE Some(PyRepr(error))

\* Mutant of StatusFinish: the assertion on self.started is missing.
StatusFinishUnguarded(st, t, error, result, code) ==
    [status |-> [st EXCEPT !.finished = Some(t), !.error = ErrorText(error),
                           !.result = result, !.status_code = code],
     outcome |-> "ok"]

\* RequestStatus.finish
StatusFinish(st, t, error, result, code) ==
    IF StatusFinishAssert(st)
    THEN [status |-> [st EXCEPT !.finished = Some(t), !.error = ErrorText(error),
                                !.result = result, !.status_code = code],
          outcome |-> "ok"]
    ELSE [status |-> st, outcome |-> "AssertionError"]

\* The status object RequestInfo.start() calls status.start() on
InfoStartStatus(st) == RequestStatus

\* A hook call: which hook ran ("none" when no callback is configured) and the
\* outcome of the method that called it.
CallHook(which, hook) ==
    [ran |-> IF hook = "unset" THEN "none" ELSE which,
     outcome |-> IF hook = "raises" THEN "HookError" ELSE "ok"]

\* Mutant of InfoStart: the start callback is called before status.start().
InfoStartHookFirst(st, t, hook) ==
    LET s == StatusStart(InfoStartStatus(st), t)
        h == CallHook("start", hook)
    IN  IF h.outcome # "ok"
        THEN [status |-> st, outcome |-> h.outcome, hook |-> h.ran]
        ELSE [status |-> s.status, outcome |-> s.outcome, hook |-> h.ran]

\* RequestInfo.start
InfoStart(st, t, hook) ==
    LET s == StatusStart(InfoStartStatus(st), t)
        h == CallHook("start", hook)
    IN  IF s.outcome # "ok"
        THEN [status |-> s.status, outcome |-> s.outcome, hook |-> "none"]
        ELSE [status |-> s.status, outcome |-> h.outcome, hook |-> h.ran]

\* Mutant of FinishArgsMissing: the argument check is left out.
FinishArgsNeverMissing(error, result) == FALSE

\* RequestInfo.finish: if error is None and result is None: raise ValueError
FinishArgsMissing(error, result) == error.kind = "none" /\ result = None

\* Mutant of InfoFinish: the end callback is called before status.finish().
InfoFinishHookFirst(st, t, error, result, code, hook) ==
    IF FinishArgsMissing(error, result)
    THEN [status |-> st, outcome |-> "ValueError", hook |-> "none"]
    ELSE LET s == StatusFinish(st, t, error, result, code)
             h == CallHook("end", hook)
         IN  IF h.outcome # "ok"
             THEN [status |-> st, outcome |-> h.outcome, hook |-> h.ran]
             ELSE [status |-> s.status, outcome |-> s.outcome, hook |-> h.ran]

\* RequestInfo.finish
InfoFinish(st, t, error, result, code, hook) ==
    IF FinishArgsMissing(error, result)
    THEN [status |-> st, outcome |-> "ValueError", hook |-> "none"]
    ELSE LET s == StatusFinish(st, t, error, result, code)
             h == CallHook("end", hook)
         IN  IF s.outcome # "ok"
             THEN [status |-> s.status, outcome |-> s.outcome, hook |-> "none"]
             ELSE [status |-> s.status, outcome |-> h.outcome, hook |-> h.ran]

\* A call is accepted when the lifecycle method changed the state and did not
\* reject it (a hook that raises afterwards does not undo the state change).
Accepted(outcome) == outcome \in {"ok", "HookError"}

N == Len(status)
Records == 1..N

NoCall == [op |-> "none", rec |-> 0, pre |-> "unstarted", outcome |-> "ok", hook |-> "none"]

----------------------------------------------------------------------------
(* Values of the variables a specification does not use *)

NoRegCall == [op |-> "none", name |-> "", proc |-> "", outcome |-> "ok"]

\* The modules that pkgutil.iter_modules finds in the namespace package
\* proxytest.backends, in the order it yields them: the backend each registers,
\* the packages and the syntax its import needs
BackendModules ==
    << [name |-> "proxytest.backends._aiohttp_python35", underscore |-> TRUE,
        backend |-> "aiohttp", packages |-> <<"aiohttp">>, syntax |-> "async"],
       [name |-> "proxytest.backends.aiohttp", underscore |-> FALSE,
        backend |-> "aiohttp", packages |-> <<"aiohttp">>, syntax |-> "async"],
       [name |-> "proxytest.backends.dummy", underscore |-> FALSE,
        backend |-> "dummy", packages |-> <<>>, syntax |-> "plain"],
       [name |-> "proxytest.backends.requests", underscore |-> FALSE,
        backend |-> "requests", packages |-> <<"requests">>, syntax |-> "plain"],
       [name |-> "proxytest.backends.simple", underscore |-> FALSE,
        backend |-> "simple", packages |-> <<>>, syntax |-> "plain"] >>

ModuleNames == { BackendModules[k].name : k \in 1..Len(BackendModules) }

\* No backend module has been imported
NoModules == [n \in ModuleNames |-> "absent"]

NoPass == [state |-> "none", names |-> {}, suggested |-> <<>>]

\* No options object exists, expand_proxy_url has not been called
NoOptions == [pc |-> "none", arg |-> None, workers |-> None]
NoProxies == [outcome |-> "none", urls |-> <<>>]

DispIdle ==
    /\ max_workers = None
    /\ disp = [pc |-> "idle", exc |-> ""]
    /\ idx = 0
    /\ queue = <<>>
    /\ threads = 0
    /\ unit = <<>>

RunIdle ==
    /\ rpc = "none"
    /\ spc = [pc |-> "none", exc |-> "", fresh |-> {}]
    /\ start_time = 0
    /\ failed_count = 0
    /\ ran_count = 0
    /\ cycles = 0
    /\ completed = 0
    /\ repeat = FALSE
    /\ backendName = ""
    /\ excOut = None
    /\ exit_code = None

RegIdle ==
    /\ REGISTRY = {}
    /\ SUGGESTED_PACKAGES = <<>>
    /\ lastReg = NoRegCall
    /\ sysModules = NoModules
    /\ installed = {}
    /\ firstPass = NoPass

OptIdle ==
    /\ options = NoOptions
    /\ proxy_url = <<>>
    /\ proxies = NoProxies

----------------------------------------------------------------------------
(* SpecRecord: one RequestInfo under every sequence of start()/finish() calls *)

\* time.monotonic() advances
Tick ==
    /\ now < MaxTime
    /\ now' = now + 1
    /\ UNCHANGED <<status, lastCall>>

\* request.start()
CallStart(r, hook) ==
    LET c == InfoStart(status[r], now, hook) IN
    /\ status' = [status EXCEPT ![r] = c.status]
    /\ lastCall' = [op |-> "start", rec |-> r, pre |-> StateOf(status[r]),
                    outcome |-> c.outcome, hook |-> c.hook]
    /\ UNCHANGED now

\* request.finish(error=..., result=..., status_code=...)
CallFinish(r, error, result, code, hook) ==
    LET c == InfoFinish(status[r], now, error, result, code, hook) IN
    /\ status' = [status EXCEPT ![r] = c.status]
    /\ lastCall' = [op |-> "finish", rec |-> r, pre |-> StateOf(status[r]),
                    outcome |-> c.outcome, hook |-> c.hook]
    /\ UNCHANGED now

RecordInit ==
    /\ status = <<RequestStatus>>
    /\ now = 1
    /\ lastCall = NoCall
    /\ DispIdle /\ RunIdle /\ RegIdle /\ OptIdle

RecordTick == Tick /\ UNCHANGED <<dispVars, runVars, regVars, optVars>>

RecordStart ==
    /\ \E r \in Records, hook \in HookBehaviours : CallStart(r, hook)
    /\ UNCHANGED <<dispVars, runVars, regVars, optVars>>

RecordFinish ==
    /\ \E r \in Records, error \in ErrorArgs, result \in ResultArgs,
          code \in StatusCodeArgs, hook \in HookBehaviours :
            CallFinish(r, error, result, code, hook)
    /\ UNCHANGED <<dispVars, runVars, regVars, optVars>>

RecordNext == RecordTick \/ RecordStart \/ RecordFinish

SpecRecord == RecordInit /\ [][RecordNext]_vars

----------------------------------------------------------------------------
(* Claims about the request lifecycle, checked under SpecRecord *)

\* C2: RequestInfo.start() is legal only on an Unstarted record: a start() call on
\* a record that is Running or Finished fails and leaves the record's status
\* (started, finished, error, result, status_code) unchanged.
C2_StartOnlyFromUnstarted ==
    [][\A r \in Records, hook \in HookBehaviours :
          (CallStart(r, hook) /\ StateOf(status[r]) # "unstarted")
              => (~Accepted(lastCall'.outcome) /\ status'[r] = status[r])]_vars

\* The outcome fields and the finished timestamp of record r stay as they are.
Frozen(r) ==
    /\ status'[r].finished = status[r].finished
    /\ status'[r].error = status[r].error
    /\ status'[r].result = status[r].result
    /\ status'[r].status_code = status[r].status_code

\* C3: Finished is terminal: once a record's finished timestamp is set, a second
\* finish() is rejected and no later start()/finish() call changes its finished
\* timestamp, error, result or status_code.
C3_FinishedIsTerminal ==
    [][\A r \in Records :
          status[r].finished # None
              => /\ Frozen(r)
                 /\ \A error \in ErrorArgs, result \in ResultArgs,
                       code \in StatusCodeArgs, hook \in HookBehaviours :
                         CallFinish(r, error, result, code, hook)
                             => ~Accepted(lastCall'.outcome)]_vars

\* C4: finish() with a valid outcome on an Unstarted record is rejected: it fails,
\* sets neither the finished timestamp nor any outcome field, and fires no hook.
C4_FinishBeforeStartRejected ==
    [][\A r \in Records, error \in ErrorArgs, result \in ResultArgs,
          code \in StatusCodeArgs, hook \in HookBehaviours :
          (/\ CallFinish(r, error, result, code, hook)
           /\ StateOf(status[r]) = "unstarted"
           /\ ~FinishArgsMissing(error, result))
              => /\ lastCall'.outcome = "AssertionError"
                 /\ status'[r] = status[r]
                 /\ status'[r].finished = None
                 /\ lastCall'.hook = "none"]_vars

\* C4 witness: a finish() that passed the argument check was made on an Unstarted
\* record and failed the assertion.
C4_Witness ==
    /\ lastCall.op = "finish"
    /\ lastCall.pre = "unstarted"
    /\ lastCall.outcome = "AssertionError"
    /\ StateOf(status[lastCall.rec]) = "unstarted"

\* C5: in every reachable state of every record, if the finished timestamp is set
\* then the started timestamp is set and is not later than it.
C5_FinishedAfterStarted ==
    \A r \in Records :
        status[r].finished # None
            => /\ status[r].started # None
               /\ status[r].started[1] <= status[r].finished[1]

\* C5 witness: a record that finished strictly after it started.
C5_Witness ==
    \E r \in Records :
        /\ status[r].finished # None
        /\ status[r].started # None
        /\ status[r].started[1] < status[r].finished[1]

\* C6: after every accepted finish() call, exactly one of status.error and
\* status.result is non-null.
C6_ExactlyOneOutcome ==
    (lastCall.op = "finish" /\ Accepted(lastCall.outcome))
        => (status[lastCall.rec].error = None) # (status[lastCall.rec].result = None)

----------------------------------------------------------------------------
(* parallel.py and backends/simple.py: SimpleBackend.process hands the batch to *)
(* process_requests, which calls _process_request once per record.             *)

\* parallel.py: max_workers = int(max_workers or 0)
IntOrZero(mw) == IF NumTruthy(mw) THEN mw[1] ELSE 0

\* Mutant of Sequential: the max_workers == 1 branch is never taken.
NeverSequential(mw) == FALSE

\* parallel.py: if max_workers == 1 (no threads)
Sequential(mw) == IntOrZero(mw) = 1

\* parallel.py: max_workers = max_workers if max_workers > 0 else len(requests)
PoolSize(mw, n) == IF IntOrZero(mw) > 0 THEN IntOrZero(mw) ELSE n

\* ThreadPoolExecutor.__init__ raises ValueError when max_workers <= 0
PoolCreated(mw, n) == PoolSize(mw, n) > 0

\* Threads: 0 is the thread that called process_requests, 1.. are pool threads.
Caller == 0

\* The callback invocation for one record, before it is submitted or called.
NewUnit ==
    [pc |-> "new", calls |-> 0, by |-> {}, fetch |-> "none", starts |-> 0, finishes |-> 0]

Terminated(u) == u.pc \in {"returned", "raised"}

\* Thread w is inside a callback
Busy(w) == \E i \in Records : unit[i].pc = "running" /\ w \in unit[i].by

\* What SimpleBackend._get_result can do: return the body, fail to fetch (URLError,
\* HTTPError, timeout) or raise another Exception (such as building the handlers).
FetchOutcomes == { "ok", "fetch_error", "other_error" }

\* The exception instance _get_result raised
FetchException(fetch) ==
    IF fetch = "fetch_error" THEN [kind |-> "exc", text |-> "boom"]
    ELSE [kind |-> "exc", text |-> ""]

\* Mutant of AfterFetch: no try/except around _get_result.
AfterFetchNoExcept(fetch) ==
    IF fetch = "ok"
    THEN [finish |-> TRUE, error |-> NoError, result |-> Some("body")]
    ELSE [finish |-> FALSE, error |-> FetchException(fetch), result |-> None]

\* SimpleBackend._process_request, the try/except/else around _get_result: the
\* finish() call it makes for each outcome.
AfterFetch(fetch) ==
    IF fetch = "ok"
    THEN [finish |-> TRUE, error |-> NoError, result |-> Some("body")]
    ELSE [finish |-> TRUE, error |-> FetchException(fetch), result |-> None]

\* SimpleBackend._process_request up to the fetch: request.start(), run by thread w.
\* An exception of the start hook leaves the callback.
UnitStart(i, w) ==
    \E hook \in HookBehaviours :
        LET c == InfoStart(status[i], now, hook) IN
        /\ status' = [status EXCEPT ![i] = c.status]
        /\ unit' = [unit EXCEPT ![i] =
                      [@ EXCEPT !.calls = @ + 1,
                                !.by = @ \cup {w},
                                !.starts = @ + (IF Accepted(c.outcome) THEN 1 ELSE 0),
                                !.pc = IF c.outcome = "ok" THEN "running" ELSE "raised"]]
        /\ UNCHANGED <<now, lastCall>>

\* SimpleBackend._process_request from the fetch on: _get_result returns or raises,
\* then request.finish(). An exception of the end hook leaves the callback.
UnitFinish(i) ==
    \E fetch \in FetchOutcomes, hook \in HookBehaviours :
        LET a == AfterFetch(fetch)
            c == InfoFinish(status[i], now, a.error, a.result, None, hook)
        IN  IF a.finish
            THEN /\ status' = [status EXCEPT ![i] = c.status]
                 /\ unit' = [unit EXCEPT ![i] =
                      [@ EXCEPT !.fetch = fetch,
                                !.finishes = @ + (IF Accepted(c.outcome) THEN 1 ELSE 0),
                                !.pc = IF c.outcome = "ok" THEN "returned" ELSE "raised"]]
                 /\ UNCHANGED <<now, lastCall>>
            ELSE /\ unit' = [unit EXCEPT ![i] = [@ EXCEPT !.fetch = fetch, !.pc = "raised"]]
                 /\ UNCHANGED recVars

\* process_requests is entered: the worker count decides between the plain loop and
\* the pool; ThreadPoolExecutor refuses a pool of size 0.
ProcessRequestsCall ==
    /\ disp.pc = "idle"
    /\ disp' = IF Sequential(max_workers)
               THEN [pc |-> IF N = 0 THEN "returned" ELSE "loop", exc |-> ""]
               ELSE IF ~PoolCreated(max_workers, N)
                    THEN [pc |-> "raised", exc |-> "ValueError"]
                    ELSE [pc |-> IF N = 0 THEN "join" ELSE "submit", exc |-> ""]
    /\ UNCHANGED <<max_workers, idx, queue, threads, unit, recVars>>

\* max_workers == 1: callback(request) begins for the next record, on the caller
LoopStart ==
    /\ disp.pc = "loop"
    /\ idx < N
    /\ unit[idx + 1].pc = "new"
    /\ UnitStart(idx + 1, Caller)
    /\ disp' = IF unit'[idx + 1].pc = "raised"
               THEN [pc |-> "raised", exc |-> "HookError"]
               ELSE disp
    /\ UNCHANGED <<max_workers, idx, queue, threads>>

\* max_workers == 1: callback(request) ends; the loop goes on, returns after the last
\* record, or is left by the callback's exception
LoopFinish ==
    /\ disp.pc = "loop"
    /\ idx < N
    /\ unit[idx + 1].pc = "running"
    /\ UnitFinish(idx + 1)
    /\ idx' = idx + 1
    /\ disp' = IF unit'[idx + 1].pc = "raised"
               THEN [pc |-> "raised",
                     exc |-> IF unit'[idx + 1].finishes = 0 THEN "Exception" ELSE "HookError"]
               ELSE [pc |-> IF idx' = N THEN "returned" ELSE "loop", exc |-> ""]
    /\ UNCHANGED <<max_workers, queue, threads>>

\* Mutant of ThreadsAfterSubmit: every submit adds a thread, max_workers is not
\* looked at.
ThreadsUncapped == {threads + 1}

\* ThreadPoolExecutor._adjust_thread_count: a thread is added while fewer than
\* max_workers exist; newer Pythons add none when a thread has signalled it is idle.
ThreadsAfterSubmit ==
    IF threads >= PoolSize(max_workers, N) THEN {threads}
    ELSE IF \A w \in 1..threads : Busy(w) THEN {threads + 1}
    ELSE {threads, threads + 1}

\* executor.submit(callback, request) for the next record of the batch
PoolSubmit ==
    /\ disp.pc = "submit"
    /\ idx < N
    /\ idx' = idx + 1
    /\ queue' = Append(queue, idx + 1)
    /\ unit' = [unit EXCEPT ![idx + 1].pc = "queued"]
    /\ threads' \in ThreadsAfterSubmit
    /\ disp' = [disp EXCEPT !.pc = IF idx' = N THEN "join" ELSE "submit"]
    /\ UNCHANGED <<max_workers, recVars>>

\* A free pool thread takes the oldest work item and begins its callback
PoolTake ==
    /\ disp.pc \in {"submit", "join"}
    /\ queue # <<>>
    /\ \E w \in 1..threads :
          /\ ~Busy(w)
          /\ UnitStart(Head(queue), w)
    /\ queue' = Tail(queue)
    /\ UNCHANGED <<max_workers, disp, idx, threads>>

\* A pool thread's callback ends; the future keeps whatever it raised
PoolFinish ==
    /\ disp.pc \in {"submit", "join"}
    /\ \E i \in Records :
          /\ unit[i].pc = "running"
          /\ UnitFinish(i)
    /\ UNCHANGED <<max_workers, disp, idx, queue, threads>>

\* Mutant of ShutdownReturns: shutdown(wait=False).
ShutdownNoWait == TRUE

\* ThreadPoolExecutor.__exit__ is shutdown(wait=True): it returns when every
\* submitted work item has run
ShutdownReturns == queue = <<>> /\ \A i \in Records : Terminated(unit[i])

\* The with block of process_requests is left and process_requests returns
PoolShutdown ==
    /\ disp.pc = "join"
    /\ ShutdownReturns
    /\ disp' = [disp EXCEPT !.pc = "returned"]
    /\ UNCHANGED <<max_workers, idx, queue, threads, unit, recVars>>

\* The worker counts of a batch of n records that the dispatcher is specified for,
\* and the count left unset
WorkerCounts(n) == { None, Some(0), Some(1), Some(2), Some(n), Some(n + 5) }

DispatchInit ==
    /\ \E n \in 0..MaxRecords : status = [i \in 1..n |-> RequestStatus]
    /\ now = 1
    /\ lastCall = NoCall
    /\ max_workers \in WorkerCounts(Len(status))
    /\ disp = [pc |-> "idle", exc |-> ""]
    /\ idx = 0
    /\ queue = <<>>
    /\ threads = 0
    /\ unit = [i \in 1..Len(status) |-> NewUnit]
    /\ RunIdle /\ RegIdle /\ OptIdle

DispatchCall == ProcessRequestsCall /\ UNCHANGED <<runVars, regVars, optVars>>
DispatchLoopStart == LoopStart /\ UNCHANGED <<runVars, regVars, optVars>>
DispatchLoopFinish == LoopFinish /\ UNCHANGED <<runVars, regVars, optVars>>
DispatchSubmit == PoolSubmit /\ UNCHANGED <<runVars, regVars, optVars>>
DispatchTake == PoolTake /\ UNCHANGED <<runVars, regVars, optVars>>
DispatchFinish == PoolFinish /\ UNCHANGED <<runVars, regVars, optVars>>
DispatchShutdown == PoolShutdown /\ UNCHANGED <<runVars, regVars, optVars>>

\* The clock is left out of this specification: the dispatcher never reads a
\* timestamp, and every start()/finish() of a batch stamps the same reading.
DispatchNext ==
    \/ DispatchCall
    \/ DispatchLoopStart
    \/ DispatchLoopFinish
    \/ DispatchSubmit
    \/ DispatchTake
    \/ DispatchFinish
    \/ DispatchShutdown

SpecDispatch == DispatchInit /\ [][DispatchNext]_vars

----------------------------------------------------------------------------
(* Claims about the dispatcher, checked under SpecDispatch *)

\* C1: for every batch and every worker count in {1, 0, 2, N, N+5} (or unset), the
\* callback is invoked at most once per record and by at most one thread at any
\* time, and when process_requests returns the callback has been invoked exactly
\* once for every record and every invocation has ended.
C1_EachRecordOnce ==
    /\ \A i \in Records : unit[i].calls <= 1 /\ Cardinality(unit[i].by) <= 1
    /\ disp.pc = "returned"
          => \A i \in Records : unit[i].calls = 1 /\ Terminated(unit[i])

\* C1 witness: a pool of two threads has processed a batch of two records, one
\* record per thread, and process_requests has returned.
C1_Witness ==
    /\ disp.pc = "returned"
    /\ N = 2
    /\ threads = 2
    /\ unit[1].by # unit[2].by
    /\ \A i \in Records : unit[i].calls = 1 /\ unit[i].pc = "returned"

\* No exception has left a callback (no lifecycle hook raised).
NoUnitRaised == \A i \in Records : unit[i].pc # "raised"

\* C9: an exception raised while fetching a record (a fetch failure or any other
\* exception inside the unit's try block) ends that record Finished with an error;
\* it never makes the strategy raise; and when the strategy returns, every record
\* is Finished after one start() and exactly one finish().
C9_FailureContained ==
    /\ \A i \in Records :
          unit[i].fetch \in {"fetch_error", "other_error"}
              => /\ StateOf(status[i]) = "finished"
                 /\ status[i].error # None
                 /\ ~succeeded(status[i])
    /\ disp.pc = "raised"
          => \/ disp.exc = "HookError"
             \/ disp.exc = "ValueError" /\ N = 0
    /\ (disp.pc = "returned" /\ NoUnitRaised)
          => \A i \in Records :
                /\ StateOf(status[i]) = "finished"
                /\ unit[i].starts = 1
                /\ unit[i].finishes = 1

\* C9 witness: in a batch of two the fetch of the first record failed, the second
\* succeeded, and the strategy returned with both records Finished.
C9_Witness ==
    /\ disp.pc = "returned"
    /\ N = 2
    /\ unit[1].fetch = "fetch_error"
    /\ status[1].error = Some("boom")
    /\ unit[2].fetch = "ok"
    /\ succeeded(status[2])
    /\ \A i \in Records : unit[i].starts = 1 /\ unit[i].finishes = 1

----------------------------------------------------------------------------
(* SpecPool: process_requests with a bounded pool (W > 1) and batches that can  *)
(* be larger than the pool. The threads are scheduled: while the caller can go  *)
(* on or a pool thread can take a work item or end its callback, one of them    *)
(* does.                                                                        *)

\* The worker count of a bounded pool: the smallest W > 1, so that batches of
\* more than W records fit the bound on the batch size
PoolWorkerCounts == { Some(2) }

PoolInit ==
    /\ \E n \in 0..MaxBatch : status = [i \in 1..n |-> RequestStatus]
    /\ now = 1
    /\ lastCall = NoCall
    /\ max_workers \in PoolWorkerCounts
    /\ disp = [pc |-> "idle", exc |-> ""]
    /\ idx = 0
    /\ queue = <<>>
    /\ threads = 0
    /\ unit = [i \in 1..Len(status) |-> NewUnit]
    /\ RunIdle /\ RegIdle /\ OptIdle

PoolNext ==
    \/ DispatchCall
    \/ DispatchSubmit
    \/ DispatchTake
    \/ DispatchFinish
    \/ DispatchShutdown

SpecPool == PoolInit /\ [][PoolNext]_vars /\ WF_vars(PoolNext)

----------------------------------------------------------------------------
(* Further claims about the dispatcher *)

\* The records whose callback is in progress
Processing == { i \in Records : unit[i].pc = "running" }

\* C17: with W == 1 process_requests creates no pool and runs the callbacks on the
\* caller in batch order: the callback for record i+1 does not begin before the
\* callback for record i has returned, so at most one record is being processed.
C17_SequentialOnCaller ==
    max_workers = Some(1)
        => /\ threads = 0
           /\ queue = <<>>
           /\ \A i \in Records : unit[i].by \subseteq {Caller} /\ unit[i].pc # "queued"
           /\ \A i \in Records :
                 (i < N /\ unit[i + 1].pc # "new") => unit[i].pc = "returned"
           /\ Cardinality(Processing) <= 1

\* C17 witness: with W == 1 a batch of two was processed by the caller, no thread
\* was created, and process_requests returned.
C17_Witness ==
    /\ max_workers = Some(1)
    /\ N = 2
    /\ disp.pc = "returned"
    /\ threads = 0
    /\ \A i \in Records : unit[i].by = {Caller} /\ unit[i].pc = "returned"

\* The records whose callback has begun
Begun == { i \in Records : unit[i].pc \in {"running", "returned", "raised"} }

\* C18: with W > 1 the records are submitted to the pool in batch order and taken
\* from it in that order, never more than W records are being processed (and never
\* more than W threads exist), and a waiting record is picked up once a worker is
\* free: a record does not wait while no thread exists, and whenever records wait
\* the queue is eventually emptied, which only taking them for processing does.
C18_BoundedPool ==
    /\ [](/\ \A i \in Records : unit[i].pc = "new" <=> i > idx
          /\ \A k \in 1..Len(queue) : queue[k] = idx - Len(queue) + k
          /\ \A i \in Records : i \in Begun <=> (i <= idx - Len(queue))
          /\ Cardinality(Processing) <= max_workers[1]
          /\ threads <= max_workers[1]
          /\ queue # <<>> => threads >= 1)
    /\ (queue # <<>>) ~> (queue = <<>>)

\* C18 witness: a batch of three with W == 2: two records are being processed by
\* the two threads while the third waits in the queue.
C18_Witness ==
    /\ max_workers = Some(2)
    /\ N = 3
    /\ threads = 2
    /\ Processing = {1, 2}
    /\ unit[1].by # unit[2].by
    /\ queue = <<3>>

\* C19: with W == 0 or W unset process_requests processes the batch to completion
\* with one worker per record, for every batch size N >= 0: it does not fail, it
\* creates at most N threads, and when it returns every record is Finished.
C19_UnboundedProcessesBatch ==
    ~NumTruthy(max_workers)
        => /\ disp.pc # "raised"
           /\ threads <= N
           /\ (disp.pc = "returned" /\ NoUnitRaised)
                 => \A i \in Records : StateOf(status[i]) = "finished"

----------------------------------------------------------------------------
(* proxytest.py: the Runner. The backend processor it calls is any callable that *)
(* is handed the context: it may call start() and finish() on the records in any *)
(* order, and then return or raise.                                             *)

\* Exceptions as values: the type, and what an UnableToTest message reports.
Exc(type, reason, name, k, n) ==
    [type |-> type, reason |-> reason, backend |-> name, unfinished |-> k, total |-> n]

\* The BaseExceptions that are no Exception: an interrupt of the main thread
Interrupts == { "KeyboardInterrupt", "SystemExit" }

\* What leaves a processor call: an Exception subclass, or an interrupt that
\* arrived while the processor was running
RaisedByProcessor == { "Exception" } \cup Interrupts

\* Mutant of CaughtByRunOnce: the except clause does not match.
CaughtNothing(exc) == FALSE

\* run_once: "except Exception" around the processor call
CaughtByRunOnce(exc) == exc = "Exception"

\* Mutant of NotSucceededCount: counts the records that succeeded.
SucceededCount(st) == Cardinality({ i \in 1..Len(st) : succeeded(st[i]) })

\* Mutant of UnfinishedCount: counts the records that were never started.
UnstartedCount(st) == Cardinality({ i \in 1..Len(st) : ~NumTruthy(st[i].started) })

\* run_once: sum((1 for x in self.context.requests if not x.status.finished))
UnfinishedCount(st) == Cardinality({ i \in 1..Len(st) : ~NumTruthy(st[i].finished) })

\* run_once: sum((1 for x in self.context.requests if not x.status.succeeded))
NotSucceededCount(st) == Cardinality({ i \in 1..Len(st) : ~succeeded(st[i]) })

\* config.proxy_url of a record: None for the direct call, else the proxy URL
ProxyUrls == { None, Some(<<"h", "t", "t", "p", ":", "/", "/", "a", ":", "1">>) }

\* Output.run_end: sorted(...) and ' '.join(...) of the proxy_url of the records
\* that did not succeed take strings only; the percentages divide by
\* len(runner.context.requests)
RunEnd(st, urls) ==
    IF \E i \in 1..Len(st) : ~succeeded(st[i]) /\ urls[i] = None THEN "TypeError"
    ELSE IF Len(st) = 0 THEN "ZeroDivisionError"
    ELSE "ok"

\* Mutant of running: the property never reports a cycle in progress.
NeverRunning == FALSE

\* Runner.running
running == start_time # 0

\* class ExitCode
ExitCode == [success |-> 0, fail |-> 1, unable_to_test |-> 2]

\* _run_from_command_line: return ExitCode.fail if runner.failed_count else ExitCode.success
Classify(failed) == IF failed # 0 THEN ExitCode.fail ELSE ExitCode.success

\* Mutant of CommandLineOutcome: UnableToTest is not caught apart, the failed count
\* decides.
CommandLineOutcomeByCount(exc, isRunning, failed) ==
    IF exc = None THEN Some(Classify(failed))
    ELSE IF exc[1].type = "UnableToTest" THEN Some(Classify(failed))
    ELSE IF exc[1].type \in {"KeyboardInterrupt", "SystemExit"}
         THEN IF isRunning THEN Some(ExitCode.unable_to_test) ELSE Some(Classify(failed))
    ELSE None

\* run_from_command_line and _run_from_command_line, from what left Runner(...) or
\* runner.run(): the exit code returned, or None when the exception is not caught
CommandLineOutcome(exc, isRunning, failed) ==
    IF exc = None THEN Some(Classify(failed))
    ELSE IF exc[1].type = "UnableToTest" THEN Some(ExitCode.unable_to_test)
    ELSE IF exc[1].type \in {"KeyboardInterrupt", "SystemExit"}
         THEN IF isRunning THEN Some(ExitCode.unable_to_test) ELSE Some(Classify(failed))
    ELSE None

\* The names a processor is looked up by, and the processors
BackendNames == { "dummy", "simple" }
Processors == { "f", "g" }

\* Mutant of FindProcessor: a name that is not bound falls back to a backend that is.
FindProcessorFallback(registry, name) ==
    IF registry = {} THEN "no backends" ELSE "found"

\* Runner.Backend._find_processor
FindProcessor(registry, name) ==
    IF registry = {} THEN "no backends"
    ELSE IF ~\E e \in registry : e.name = name THEN "not available"
    ELSE "found"

\* Runner.__init__: looks the backend up, builds the context, zeroes the counters
RunnerConstruct ==
    /\ rpc = "new"
    /\ IF FindProcessor(REGISTRY, backendName) = "found"
       THEN /\ rpc' = "ready"
            /\ excOut' = None
       ELSE /\ rpc' = "raised"
            /\ excOut' = Some(Exc("UnableToTest", "backend", backendName, 0, 0))
    /\ start_time' = 0
    /\ failed_count' = 0
    /\ ran_count' = 0
    /\ UNCHANGED <<spc, cycles, completed, repeat, backendName, exit_code,
                   recVars, dispVars, regVars, optVars>>

\* run_once up to the processor call: it stamps start_time and calls the processor
\* with self.context, the context that __init__ built
RunOnceEnter ==
    /\ rpc \in {"ready", "sleeping"}
    /\ cycles < MaxCycles
    /\ start_time' = now
    /\ cycles' = cycles + 1
    /\ rpc' = "in_cycle"
    /\ spc' = [pc |-> "running", exc |-> "", fresh |-> {}]
    /\ UNCHANGED <<failed_count, ran_count, completed, repeat, backendName, excOut,
                   exit_code, recVars, regVars, optVars>>

\* Runner.run calls run_once, which stamps start_time and calls the processor;
\* after the first cycle this is the end of time.sleep(repeat_seconds)
RunOnceCall == RunOnceEnter /\ UNCHANGED dispVars

\* The processor calls request.start() on a record: from then on the record has
\* the status object that this call made
ProcessorStart ==
    /\ spc.pc = "running"
    /\ \E i \in Records, hook \in {"returns", "raises"} :
          /\ status' = [status EXCEPT ![i] = InfoStart(status[i], now, hook).status]
          /\ spc' = [spc EXCEPT !.fresh = @ \cup {i}]
    /\ UNCHANGED <<now, lastCall, rpc, start_time, failed_count, ran_count, cycles,
                   completed, repeat, backendName, excOut, exit_code, dispVars, regVars,
                   optVars>>

\* The processor calls request.finish(...) on a record
ProcessorFinish ==
    /\ spc.pc = "running"
    /\ \E i \in Records, error \in ErrorArgs, result \in ResultArgs,
          hook \in {"returns", "raises"} :
          status' = [status EXCEPT ![i] =
                        InfoFinish(status[i], now, error, result, None, hook).status]
    /\ UNCHANGED <<now, lastCall, runVars, dispVars, regVars, optVars>>

\* The processor returns
ProcessorReturn ==
    /\ spc.pc = "running"
    /\ spc' = [spc EXCEPT !.pc = "returned"]
    /\ UNCHANGED <<rpc, start_time, failed_count, ran_count, cycles, completed, repeat,
                   backendName, excOut, exit_code, recVars, dispVars, regVars, optVars>>

\* The processor raises
ProcessorRaise ==
    /\ spc.pc = "running"
    /\ \E exc \in RaisedByProcessor : spc' = [spc EXCEPT !.pc = "raised", !.exc = exc]
    /\ UNCHANGED <<rpc, start_time, failed_count, ran_count, cycles, completed, repeat,
                   backendName, excOut, exit_code, recVars, dispVars, regVars, optVars>>

\* run_once when the processor raised: an Exception becomes UnableToTest naming the
\* backend, anything else passes through
RunOnceExcept ==
    /\ rpc = "in_cycle"
    /\ spc.pc = "raised"
    /\ rpc' = "raised"
    /\ spc' = [pc |-> "none", exc |-> "", fresh |-> {}]
    /\ excOut' = IF CaughtByRunOnce(spc.exc)
                 THEN Some(Exc("UnableToTest", "processor", backendName, 0, 0))
                 ELSE Some(Exc(spc.exc, "", "", 0, 0))
    /\ UNCHANGED <<start_time, failed_count, ran_count, cycles, completed, repeat,
                   backendName, exit_code, recVars, dispVars, regVars, optVars>>

\* run_once when the processor returned: the unfinished check, the statistics, the
\* run_end callback; then Runner.run returns or goes to sleep
RunOnceReturn ==
    /\ rpc = "in_cycle"
    /\ spc.pc = "returned"
    /\ spc' = [pc |-> "none", exc |-> "", fresh |-> {}]
    /\ IF UnfinishedCount(status) # 0
       THEN /\ rpc' = "raised"
            /\ excOut' = Some(Exc("UnableToTest", "unfinished", "",
                                  UnfinishedCount(status), N))
            /\ UNCHANGED <<start_time, failed_count, ran_count, completed>>
       ELSE /\ failed_count' = failed_count + NotSucceededCount(status)
            /\ ran_count' = ran_count + N
            /\ IF RunEnd(status, proxies.urls) # "ok"
               THEN /\ rpc' = "raised"
                    /\ excOut' = Some(Exc(RunEnd(status, proxies.urls), "", "", 0, 0))
                    /\ UNCHANGED <<start_time, completed>>
               ELSE /\ start_time' = 0
                    /\ completed' = completed + 1
                    /\ rpc' = IF repeat THEN "sleeping" ELSE "returned"
                    /\ UNCHANGED excOut
    /\ UNCHANGED <<cycles, repeat, backendName, exit_code, recVars, dispVars, regVars, optVars>>

\* An interrupt arrives while Runner.run is in time.sleep(repeat_seconds) (or in
\* the runner_waiting callback before it) and leaves run()
SleepInterrupted ==
    /\ rpc = "sleeping"
    /\ rpc' = "raised"
    /\ \E exc \in Interrupts : excOut' = Some(Exc(exc, "", "", 0, 0))
    /\ UNCHANGED <<spc, start_time, failed_count, ran_count, cycles, completed, repeat,
                   backendName, exit_code, recVars, dispVars, regVars, optVars>>

\* run_from_command_line returns an exit code for what Runner(...) or runner.run()
\* did, or is left by an exception it does not catch
CommandLineReturn ==
    /\ rpc \in {"returned", "raised"}
    /\ LET out == CommandLineOutcome(excOut, running, failed_count) IN
          /\ exit_code' = out
          /\ rpc' = IF out = None THEN "crashed" ELSE "exited"
    /\ UNCHANGED <<spc, start_time, failed_count, ran_count, cycles, completed, repeat,
                   backendName, excOut, recVars, dispVars, regVars, optVars>>

RunnerInit ==
    /\ \E n \in 0..MaxRecords : status = [i \in 1..n |-> RequestStatus]
    /\ now = 1
    /\ lastCall = NoCall
    /\ DispIdle
    /\ rpc = "new"
    /\ spc = [pc |-> "none", exc |-> "", fresh |-> {}]
    /\ start_time = 0
    /\ failed_count = 0
    /\ ran_count = 0
    /\ cycles = 0
    /\ completed = 0
    /\ repeat \in BOOLEAN
    /\ backendName \in BackendNames
    /\ excOut = None
    /\ exit_code = None
    /\ REGISTRY \in { {}, {[name |-> "dummy", proc |-> "f"]} }
    /\ SUGGESTED_PACKAGES = <<>>
    /\ lastReg = NoRegCall
    /\ sysModules = NoModules
    /\ installed = {}
    /\ firstPass = NoPass
    /\ options = NoOptions
    /\ proxy_url = <<>>
    /\ \E u \in [1..Len(status) -> ProxyUrls] : proxies = [outcome |-> "ok", urls |-> u]

\* The clock is left out of this specification: the Runner only tests start_time
\* and the timestamps for being set. An interrupt during a cycle arrives while the
\* processor runs (ProcessorRaise), where a cycle spends its time.
RunnerNext ==
    \/ RunnerConstruct
    \/ RunOnceCall
    \/ ProcessorStart
    \/ ProcessorFinish
    \/ ProcessorReturn
    \/ ProcessorRaise
    \/ RunOnceExcept
    \/ RunOnceReturn
    \/ SleepInterrupted
    \/ CommandLineReturn

SpecRunner == RunnerInit /\ [][RunnerNext]_vars

----------------------------------------------------------------------------
(* Claims about Runner.run_once, checked under SpecRunner *)

\* The records of the batch that are Unstarted or Running
NotFinished == { i \in Records : StateOf(status[i]) # "finished" }

\* C7: when the processor has returned and k >= 1 records of the batch are not
\* Finished, run_once raises UnableToTest reporting k unfinished out of N, and the
\* cycle is not counted (completed, ran_count and failed_count stay as they are).
C7_UnfinishedIsUnableToTest ==
    [][(rpc = "in_cycle" /\ spc.pc = "returned" /\ Cardinality(NotFinished) >= 1)
          => /\ rpc' = "raised"
             /\ excOut' = Some(Exc("UnableToTest", "unfinished", "",
                                   Cardinality(NotFinished), N))
             /\ completed' = completed
             /\ ran_count' = ran_count
             /\ failed_count' = failed_count]_vars

\* C7 witness: the processor returned leaving exactly one of two records Running
\* (the other Finished), and run_once raised UnableToTest for 1 out of 2.
C7_Witness ==
    /\ rpc = "raised"
    /\ N = 2
    /\ excOut = Some(Exc("UnableToTest", "unfinished", "", 1, 2))
    /\ \E i \in Records : StateOf(status[i]) = "running"
    /\ \E i \in Records : StateOf(status[i]) = "finished"

\* C8 as claimed: whatever the processor raises, run_once raises UnableToTest naming
\* the backend, and the processor's own exception type never leaves run_once.
C8_AnyExceptionWrapped ==
    [][(rpc = "in_cycle" /\ spc.pc = "raised")
          => excOut' = Some(Exc("UnableToTest", "processor", backendName, 0, 0))]_vars

\* C8 as amended: an exception derived from Exception that the processor raises
\* becomes UnableToTest naming the backend; a KeyboardInterrupt or SystemExit
\* leaves run_once as it is.
C8_ExceptionWrapped ==
    [][(rpc = "in_cycle" /\ spc.pc = "raised")
          => /\ rpc' = "raised"
             /\ spc.exc = "Exception"
                   => excOut' = Some(Exc("UnableToTest", "processor", backendName, 0, 0))
             /\ spc.exc # "Exception"
                   => excOut' = Some(Exc(spc.exc, "", "", 0, 0))]_vars

\* C8 witness: the processor raised an Exception and run_once left with
\* UnableToTest naming the backend.
C8_Witness ==
    /\ rpc = "raised"
    /\ cycles >= 1
    /\ excOut = Some(Exc("UnableToTest", "processor", "dummy", 0, 0))

----------------------------------------------------------------------------
(* backend.py: the registry *)

\* The objects passed as register(name, ...): strings (one of them empty) and a
\* value that is not a string
NameArgs ==
    { [kind |-> "str", text |-> ""],
      [kind |-> "str", text |-> "dummy"],
      [kind |-> "str", text |-> "simple"],
      [kind |-> "str", text |-> "requests"],
      [kind |-> "int", text |-> "7"] }

\* The objects passed as register(..., processor): two callables and a value that
\* is not callable
ProcessorArgs == Processors \cup { "not callable" }

\* callable(processor)
Callable(proc) == proc \in Processors

\* bool(name): '' is falsy
NameTruthy(name) == name.text # ""

\* name in REGISTRY
InRegistry(registry, name) == \E e \in registry : e.name = name

\* REGISTRY[name] = processor
SetItem(registry, name, proc) ==
    { e \in registry : e.name # name } \cup { [name |-> name, proc |-> proc] }

\* Mutant of Register: the "if name in REGISTRY" check is missing.
RegisterOverwrites(registry, name, proc) ==
    IF ~NameTruthy(name) THEN [registry |-> registry, outcome |-> "ValueError"]
    ELSE IF name.kind # "str" THEN [registry |-> registry, outcome |-> "TypeError"]
    ELSE IF ~Callable(proc) THEN [registry |-> registry, outcome |-> "TypeError"]
    ELSE [registry |-> SetItem(registry, name.text, proc), outcome |-> "ok"]

\* Mutant of Register: the callable(processor) check is missing.
RegisterAnyProcessor(registry, name, proc) ==
    IF ~NameTruthy(name) THEN [registry |-> registry, outcome |-> "ValueError"]
    ELSE IF name.kind # "str" THEN [registry |-> registry, outcome |-> "TypeError"]
    ELSE IF InRegistry(registry, name.text)
         THEN [registry |-> registry, outcome |-> "AlreadyInRegistry"]
    ELSE [registry |-> SetItem(registry, name.text, proc), outcome |-> "ok"]

\* register(name, processor)
Register(registry, name, proc) ==
    IF ~NameTruthy(name) THEN [registry |-> registry, outcome |-> "ValueError"]
    ELSE IF name.kind # "str" THEN [registry |-> registry, outcome |-> "TypeError"]
    ELSE IF ~Callable(proc) THEN [registry |-> registry, outcome |-> "TypeError"]
    ELSE IF InRegistry(registry, name.text)
         THEN [registry |-> registry, outcome |-> "AlreadyInRegistry"]
    ELSE [registry |-> SetItem(registry, name.text, proc), outcome |-> "ok"]

\* A call of register(name, processor)
RegisterCall(name, proc) ==
    LET c == Register(REGISTRY, name, proc) IN
    /\ REGISTRY' = c.registry
    /\ lastReg' = [op |-> "register", name |-> name.text, proc |-> proc,
                   outcome |-> c.outcome]
    /\ UNCHANGED SUGGESTED_PACKAGES

\* reset_backends()
ResetCall ==
    /\ REGISTRY' = {}
    /\ SUGGESTED_PACKAGES' = <<>>
    /\ lastReg' = [op |-> "reset", name |-> "", proc |-> "", outcome |-> "ok"]

\* REGISTRY[name], as the set of processors bound to name (empty: KeyError)
Lookup(registry, name) == { e.proc : e \in { x \in registry : x.name = name } }

\* find_backends: if '._' in name: continue
Skipped(m) == m.underscore

\* Mutant of ModuleRuns: a module that is flagged as loaded is not reloaded.
ModuleRunsOnce(cur) == cur = "absent"

\* find_backends: importlib.import_module executes the module's code when the
\* module is not in sys.modules, importlib.reload executes it when it carries
\* the flag of an earlier pass
ModuleRuns(cur) == cur \in {"absent", "flagged"}

\* What the interpreter can offer: the async/await syntax (Python >= 3.5) and the
\* third-party packages
Offers == { "async", "aiohttp", "requests" }

\* Mutant of ExecModule: a module binds its backend whether or not the name is
\* bound already.
ExecModuleRebinding(m, registry, offers) ==
    IF m.syntax = "async" /\ "async" \notin offers
    THEN [registry |-> registry, outcome |-> "NotSupportedError"]
    ELSE IF \E k \in 1..Len(m.packages) : m.packages[k] \notin offers
    THEN [registry |-> registry, outcome |-> "MissingDependenciesError"]
    ELSE [registry |-> SetItem(registry, m.backend, "f"), outcome |-> "ok"]

\* The code of a backend module runs: NotSupportedError where the syntax is
\* missing, MissingDependenciesError where a package is, else it registers its
\* backend
ExecModule(m, registry, offers) ==
    IF m.syntax = "async" /\ "async" \notin offers
    THEN [registry |-> registry, outcome |-> "NotSupportedError"]
    ELSE IF \E k \in 1..Len(m.packages) : m.packages[k] \notin offers
    THEN [registry |-> registry, outcome |-> "MissingDependenciesError"]
    ELSE Register(registry, [kind |-> "str", text |-> m.backend], "f")

\* Mutant of Swallowed: a bare except, every exception of a module is swallowed.
SwallowedAny(outcome) == TRUE

\* import_exception_manager: the exceptions it does not let through
Swallowed(outcome) == outcome \in {"MissingDependenciesError", "NotSupportedError"}

\* Mutant of SuggestedAfter: the packages are also added for a NotSupportedError.
SuggestedAfterAnySkip(outcome, packages, suggested) ==
    IF outcome \in {"MissingDependenciesError", "NotSupportedError"}
    THEN suggested \o packages ELSE suggested

\* import_exception_manager: SUGGESTED_PACKAGES.extend(e.packages); the modules
\* name one package each, which sorted() leaves as it is
SuggestedAfter(outcome, packages, suggested) ==
    IF outcome = "MissingDependenciesError" THEN suggested \o packages ELSE suggested

\* The module in sys.modules after its turn in find_backends: a failed first
\* import leaves no module, a module found without the flag only gets the flag
ModuleAfter(cur, outcome) ==
    IF cur = "absent" /\ outcome # "ok" THEN "absent" ELSE "flagged"

\* find_backends, the loop over the modules from the k-th on; an exception that
\* import_exception_manager lets through ends the loop
RECURSIVE Discover(_, _)
Discover(k, st) ==
    IF k > Len(BackendModules) \/ st.outcome # "ok" THEN st
    ELSE LET m == BackendModules[k]
             cur == st.modules[m.name]
             r == IF ModuleRuns(cur)
                  THEN ExecModule(m, st.registry, st.offers)
                  ELSE [registry |-> st.registry, outcome |-> "ok"]
         IN  IF Skipped(m) THEN Discover(k + 1, st)
             ELSE Discover(k + 1,
                     [registry |-> r.registry,
                      suggested |-> SuggestedAfter(r.outcome, m.packages, st.suggested),
                      modules |-> [st.modules EXCEPT ![m.name] = ModuleAfter(cur, r.outcome)],
                      offers |-> st.offers,
                      outcome |-> IF Swallowed(r.outcome) THEN "ok" ELSE r.outcome])

\* find_backends()
FindBackends(registry, suggested, modules, offers) ==
    Discover(1, [registry |-> registry, suggested |-> suggested, modules |-> modules,
                 offers |-> offers, outcome |-> "ok"])

\* sorted(REGISTRY): the names that are bound
Names(registry) == { e.name : e \in registry }

\* A call of find_backends()
FindBackendsCall ==
    /\ Len(SUGGESTED_PACKAGES) <= MaxSuggested
    /\ LET r == FindBackends(REGISTRY, SUGGESTED_PACKAGES, sysModules, installed) IN
          /\ REGISTRY' = r.registry
          /\ SUGGESTED_PACKAGES' = r.suggested
          /\ sysModules' = r.modules
          /\ lastReg' = [op |-> "find", name |-> "", proc |-> "", outcome |-> r.outcome]
          /\ firstPass' =
                IF REGISTRY = {} /\ SUGGESTED_PACKAGES = <<>> /\ r.outcome = "ok"
                THEN [state |-> IF firstPass.state = "reset" THEN "repeated" ELSE "found",
                      names |-> Names(r.registry), suggested |-> r.suggested]
                ELSE NoPass
    /\ UNCHANGED installed

RegistryInit ==
    /\ status = <<>>
    /\ now = 1
    /\ lastCall = NoCall
    /\ DispIdle /\ RunIdle
    /\ REGISTRY = {}
    /\ SUGGESTED_PACKAGES = <<>>
    /\ lastReg = NoRegCall
    /\ sysModules = NoModules
    /\ installed \in SUBSET Offers
    /\ firstPass = NoPass
    /\ OptIdle

RegistryRegister ==
    /\ \E name \in NameArgs, proc \in ProcessorArgs : RegisterCall(name, proc)
    /\ firstPass' = NoPass
    /\ UNCHANGED <<sysModules, installed, recVars, dispVars, runVars, optVars>>

RegistryReset ==
    /\ ResetCall
    /\ firstPass' = IF firstPass.state = "none" THEN firstPass
                    ELSE [firstPass EXCEPT !.state = "reset"]
    /\ UNCHANGED <<sysModules, installed, recVars, dispVars, runVars, optVars>>

RegistryFind == FindBackendsCall /\ UNCHANGED <<recVars, dispVars, runVars, optVars>>

RegistryNext == RegistryRegister \/ RegistryReset \/ RegistryFind

SpecRegistry == RegistryInit /\ [][RegistryNext]_vars

----------------------------------------------------------------------------
(* Claims about the registry, checked under SpecRegistry *)

\* C10: after a register(name, strategy) that succeeds, a lookup of name gives that
\* strategy and nothing else; a register of a name that is already bound fails
\* with AlreadyInRegistry whatever the strategy; and no register call overwrites or
\* removes a binding.
C10_RegisterAppendOnly ==
    [][\A name \in NameArgs, proc \in ProcessorArgs :
          RegisterCall(name, proc)
              => /\ REGISTRY \subseteq REGISTRY'
                 /\ \A n \in {"dummy", "simple", "requests"} :
                       Lookup(REGISTRY, n) # {} => Lookup(REGISTRY', n) = Lookup(REGISTRY, n)
                 /\ (Lookup(REGISTRY, name.text) # {} /\ Callable(proc))
                       => lastReg'.outcome = "AlreadyInRegistry"
                 /\ lastReg'.outcome = "ok"
                       => Lookup(REGISTRY', name.text) = {proc}]_vars

\* C10 witness: a name bound to one strategy was registered again with another; the
\* call failed with AlreadyInRegistry and the first strategy is still looked up.
C10_Witness ==
    /\ lastReg.op = "register"
    /\ lastReg.outcome = "AlreadyInRegistry"
    /\ lastReg.proc = "g"
    /\ Lookup(REGISTRY, lastReg.name) = {"f"}

\* C11: register(name, strategy) fails when name is empty or strategy is not
\* callable, and every failing register call (empty name, non-callable strategy,
\* duplicate name) leaves the registry exactly as it was before the call.
C11_FailedRegisterNoEffect ==
    [][\A name \in NameArgs, proc \in ProcessorArgs :
          RegisterCall(name, proc)
              => /\ (name.text = "" \/ proc = "not callable")
                       => lastReg'.outcome # "ok"
                 /\ (name.text # "" /\ \E e \in REGISTRY : e.name = name.text)
                       => lastReg'.outcome # "ok"
                 /\ lastReg'.outcome # "ok"
                       => REGISTRY' = REGISTRY /\ SUGGESTED_PACKAGES' = SUGGESTED_PACKAGES]_vars

\* C11 witness: a register call with a strategy that is not callable, under a name
\* that is not bound, failed and left a registry that holds another binding.
C11_Witness ==
    /\ lastReg.op = "register"
    /\ lastReg.outcome = "TypeError"
    /\ lastReg.proc = "not callable"
    /\ lastReg.name = "simple"
    /\ Lookup(REGISTRY, "simple") = {}
    /\ Lookup(REGISTRY, "dummy") = {"f"}

----------------------------------------------------------------------------
(* Claims about the Runner's statistics, exit code and batches, checked under *)
(* SpecRunner                                                                 *)

\* The records of the batch that are Finished with an error
FinishedWithError == { i \in Records : StateOf(status[i]) = "finished" /\ status[i].error # None }

\* C12: when the strategy has returned with all N records Finished, run_once adds
\* exactly N to ran_count and to failed_count exactly the number of records that
\* finished with an error (0 for an all-success batch, N for an all-error batch).
C12_CountersTally ==
    [][(rpc = "in_cycle" /\ spc.pc = "returned" /\ NotFinished = {})
          => /\ ran_count' = ran_count + N
             /\ failed_count' = failed_count + Cardinality(FinishedWithError)
             /\ FinishedWithError = {} => failed_count' = failed_count
             /\ FinishedWithError = Records => failed_count' = failed_count + N]_vars

\* C12 witness: a cycle over two records, one finished with a result and one with
\* an error, was completed and counted as 2 ran, 1 failed.
C12_Witness ==
    /\ N = 2
    /\ completed = 1
    /\ ran_count = 2
    /\ failed_count = 1
    /\ Cardinality(FinishedWithError) = 1
    /\ NotFinished = {}

\* The command-line run has ended with exception type t leaving the Runner
LeftBy(t) == excOut # None /\ excOut[1].type = t

\* C13: the command-line run returns 0 exactly when every cycle completed and no
\* record failed, 1 exactly when every cycle completed and at least one record
\* failed, and 2 whenever UnableToTest was raised (strategy raised, batch left
\* incomplete, backend lookup failed), whatever failures earlier cycles counted.
C13_ExitClassification ==
    /\ exit_code # None
          => /\ exit_code = Some(0)
                   <=> (cycles >= 1 /\ completed = cycles /\ failed_count = 0)
             /\ exit_code = Some(1)
                   <=> (cycles >= 1 /\ completed = cycles /\ failed_count >= 1)
             /\ exit_code \in {Some(0), Some(1), Some(2)}
    /\ (rpc \in {"exited", "crashed"} /\ LeftBy("UnableToTest"))
          => exit_code = Some(2)

\* C13 witness: a first cycle counted a failed record, the second cycle ended in
\* UnableToTest, and the run returned 2.
C13_Witness ==
    /\ rpc = "exited"
    /\ exit_code = Some(2)
    /\ LeftBy("UnableToTest")
    /\ completed = 1
    /\ cycles = 2
    /\ failed_count >= 1

\* C14: when the Runner repeats, each cycle after the first hands the strategy a
\* freshly built batch: at the start of every cycle all records are Unstarted.
C14_FreshBatchEachCycle ==
    [][cycles' = cycles + 1
          => \A i \in Records : StateOf(status'[i]) = "unstarted"]_vars

\* C16: an interrupt (KeyboardInterrupt, SystemExit) that arrives while a cycle is
\* active leaves run_once as itself and the run returns 2; an interrupt that
\* arrives during the sleep between cycles ends the run with the exit code that
\* the accumulated failed count decides.
C16_InterruptClassification ==
    [][
        /\ (rpc = "in_cycle" /\ spc.pc = "raised" /\ spc.exc \in Interrupts)
             => (rpc' = "raised" /\ excOut' = Some(Exc(spc.exc, "", "", 0, 0)))
        /\ (/\ rpc = "raised"
            /\ rpc' # "raised"
            /\ (LeftBy("KeyboardInterrupt") \/ LeftBy("SystemExit")))
             => (/\ rpc' = "exited"
                 /\ (completed < cycles) => (exit_code' = Some(2))
                 /\ (completed = cycles)
                       => (exit_code' = Some(IF failed_count >= 1 THEN 1 ELSE 0)))
    ]_vars

\* C16 witness: the run was interrupted in the sleep after a cycle that counted a
\* failed record, and returned 1.
C16_Witness ==
    /\ rpc = "exited"
    /\ LeftBy("KeyboardInterrupt")
    /\ completed = cycles
    /\ completed >= 1
    /\ failed_count >= 1
    /\ exit_code = Some(1)

----------------------------------------------------------------------------
(* SpecCycle: the Runner with the "simple" backend as its processor, so that a *)
(* cycle is run_once calling SimpleBackend.process, which is process_requests. *)

\* Mutant of ProcessReturned: process returns without waiting for process_requests.
ProcessReturnsAtOnce == TRUE

\* SimpleBackend.process returns when its call of process_requests has returned
ProcessReturned == disp.pc = "returned"

\* Runner.__init__ with options.backend == "simple"
CycleConstruct == RunnerConstruct

\* run_once calls SimpleBackend.process: a new call of process_requests, with a
\* new executor, on the records of self.context
CycleRunOnceCall ==
    /\ RunOnceEnter
    /\ disp' = [pc |-> "idle", exc |-> ""]
    /\ idx' = 0
    /\ queue' = <<>>
    /\ threads' = 0
    /\ unit' = [i \in Records |-> NewUnit]
    /\ UNCHANGED max_workers

\* A step of process_requests or of one of its threads
CycleDispatch == spc.pc = "running" /\ DispatchNext

\* SimpleBackend.process returns to run_once
CycleProcessorReturn ==
    /\ ProcessReturned
    /\ disp.pc # "raised"
    /\ ProcessorReturn

\* What process_requests raised leaves SimpleBackend.process: a ValueError of the
\* executor or the exception of a lifecycle hook, both Exceptions
CycleProcessorRaise ==
    /\ disp.pc = "raised"
    /\ ProcessorRaise
    /\ spc'.exc = "Exception"

CycleRunOnceExcept == RunOnceExcept

CycleRunOnceReturn == RunOnceReturn

\* The batch of this specification holds records that go through a proxy.
CycleInit ==
    /\ \E n \in 0..MaxRecords : status = [i \in 1..n |-> RequestStatus]
    /\ now = 1
    /\ lastCall = NoCall
    /\ max_workers \in WorkerCounts(Len(status))
    /\ disp = [pc |-> "idle", exc |-> ""]
    /\ idx = 0
    /\ queue = <<>>
    /\ threads = 0
    /\ unit = [i \in 1..Len(status) |-> NewUnit]
    /\ rpc = "new"
    /\ spc = [pc |-> "none", exc |-> "", fresh |-> {}]
    /\ start_time = 0
    /\ failed_count = 0
    /\ ran_count = 0
    /\ cycles = 0
    /\ completed = 0
    /\ repeat \in BOOLEAN
    /\ backendName = "simple"
    /\ excOut = None
    /\ exit_code = None
    /\ REGISTRY = {[name |-> "simple", proc |-> "f"]}
    /\ SUGGESTED_PACKAGES = <<>>
    /\ lastReg = NoRegCall
    /\ sysModules = NoModules
    /\ installed = {}
    /\ firstPass = NoPass
    /\ options = NoOptions
    /\ proxy_url = <<>>
    /\ proxies = [outcome |-> "ok",
                  urls |-> [i \in 1..Len(status) |->
                              Some(<<"h", "t", "t", "p", ":", "/", "/", "a", ":", "1">>)]]

CycleNext ==
    \/ CycleConstruct
    \/ CycleRunOnceCall
    \/ CycleDispatch
    \/ CycleProcessorReturn
    \/ CycleProcessorRaise
    \/ CycleRunOnceExcept
    \/ CycleRunOnceReturn

SpecCycle == CycleInit /\ [][CycleNext]_vars

\* The records that wait in the executor's queue or are being processed
InFlight == { i \in Records : unit[i].pc \in {"queued", "running"} }

\* C15: cycles are strictly sequential: a cycle starts only when the Runner is in
\* no cycle and the strategy call of the cycle before has returned; no record is
\* in a worker's hands or waiting for one when a cycle starts, when the strategy
\* call has ended, or when the statistics are taken; and the statistics are taken
\* only after the dispatch call has returned.
C15_CyclesSequential ==
    /\ [](rpc # "in_cycle" => InFlight = {})
    /\ [](spc.pc # "running" => InFlight = {})
    /\ [][cycles' = cycles + 1
            => /\ rpc \in {"ready", "sleeping"}
               /\ spc.pc = "none"
               /\ completed = cycles
               /\ cycles >= 1 => disp.pc = "returned"
               /\ InFlight = {}]_vars
    /\ [][(ran_count' # ran_count \/ failed_count' # failed_count
              \/ completed' # completed)
            => /\ spc.pc = "returned"
               /\ disp.pc = "returned"
               /\ \A i \in Records : unit[i].pc \in {"returned", "raised"}]_vars

\* C15 witness: two cycles over a batch of two were completed, the second with a
\* pool of two threads.
C15_Witness ==
    /\ N = 2
    /\ completed = 2
    /\ ran_count = 4
    /\ threads = 2
    /\ rpc = "sleeping"

----------------------------------------------------------------------------
(* Claims about discovery, checked under SpecRegistry *)

\* A list without duplicates
NoDuplicates(seq) == \A j, k \in 1..Len(seq) : seq[j] = seq[k] => j = k

----------------------------------------------------------------------------
(* Claims about the exceptions of a backend module, checked under SpecRegistry *)

\* The k-th module is loaded by find_backends and its import raises
\* NotSupportedError: it needs syntax the interpreter does not have
Unsupported(k) ==
    LET m == BackendModules[k] IN
    ~m.underscore /\ m.syntax = "async" /\ "async" \notin installed

\* The k-th module is loaded by find_backends and its import raises
\* MissingDependenciesError: one of its packages is not installed
MissingDependencies(k) ==
    LET m == BackendModules[k] IN
    /\ ~m.underscore
    /\ ~Unsupported(k)
    /\ \E j \in 1..Len(m.packages) : m.packages[j] \notin installed

\* The packages of the modules from the k-th on that miss a dependency, in the
\* order of the modules
RECURSIVE MissingPackages(_)
MissingPackages(k) ==
    IF k > Len(BackendModules) THEN <<>>
    ELSE (IF MissingDependencies(k) THEN BackendModules[k].packages ELSE <<>>)
            \o MissingPackages(k + 1)

\* The backends of the modules that find_backends loads and whose import succeeds
LoadableBackends ==
    { BackendModules[k].backend :
        k \in { j \in 1..Len(BackendModules) :
                  /\ ~BackendModules[j].underscore
                  /\ ~Unsupported(j)
                  /\ ~MissingDependencies(j) } }

\* C21: in a discovery pass a module whose import raises NotSupportedError adds
\* nothing to the registry or the suggestion list, a module whose import raises
\* MissingDependenciesError(packages) adds its packages (never its name) to the
\* suggestion list and nothing to the registry, neither exception leaves
\* find_backends, and the modules after it are still loaded.
C21_SoftSkip ==
    [][lastReg'.op = "find"
          => /\ lastReg'.outcome \notin {"NotSupportedError", "MissingDependenciesError"}
             /\ \A k \in 1..Len(BackendModules) :
                   (Unsupported(k) \/ MissingDependencies(k))
                       => /\ Lookup(REGISTRY', BackendModules[k].backend)
                                = Lookup(REGISTRY, BackendModules[k].backend)
                          /\ \A j \in 1..Len(SUGGESTED_PACKAGES') :
                                SUGGESTED_PACKAGES'[j] # BackendModules[k].name
             /\ lastReg'.outcome = "ok"
                   => /\ SUGGESTED_PACKAGES' = SUGGESTED_PACKAGES \o MissingPackages(1)
                      /\ Names(REGISTRY') = Names(REGISTRY) \cup LoadableBackends
             /\ REGISTRY = {} => lastReg'.outcome = "ok"]_vars

\* C21 witness: on an interpreter without async syntax and without third-party
\* packages a pass skipped aiohttp (not supported) and requests (missing package):
\* only requests is suggested, and dummy and simple, which come later, are bound.
C21_Witness ==
    /\ installed = {}
    /\ lastReg.op = "find"
    /\ lastReg.outcome = "ok"
    /\ SUGGESTED_PACKAGES = <<"requests">>
    /\ Names(REGISTRY) = {"dummy", "simple"}

\* The first module of the pass whose backend name is already bound when the
\* module registers it (0: none)
FirstCollision ==
    LET hits == { k \in 1..Len(BackendModules) :
                    /\ BackendModules[k].backend \in LoadableBackends
                    /\ ~BackendModules[k].underscore
                    /\ ~Unsupported(k) /\ ~MissingDependencies(k)
                    /\ Lookup(REGISTRY, BackendModules[k].backend) # {} }
    IN  IF hits = {} THEN 0 ELSE CHOOSE k \in hits : \A j \in hits : k <= j

\* C22: a failure of a module's import that is neither NotSupportedError nor
\* MissingDependenciesError (here AlreadyInRegistry, raised by the module's own
\* registration) leaves find_backends as it is: the pass ends there, the modules
\* after it are not loaded, and the pass never reports success.
C22_HardErrorPropagates ==
    [][lastReg'.op = "find"
          => /\ FirstCollision # 0 <=> lastReg'.outcome = "AlreadyInRegistry"
             /\ FirstCollision = 0 <=> lastReg'.outcome = "ok"
             /\ FirstCollision # 0
                   => \A k \in (FirstCollision + 1)..Len(BackendModules) :
                         /\ sysModules'[BackendModules[k].name]
                               = sysModules[BackendModules[k].name]
                         /\ Lookup(REGISTRY', BackendModules[k].backend)
                               = Lookup(REGISTRY, BackendModules[k].backend)]_vars

\* C22 witness: "dummy" was bound by hand before the pass; the pass failed with
\* AlreadyInRegistry at the dummy module and never loaded requests and simple.
C22_Witness ==
    /\ lastReg.op = "find"
    /\ lastReg.outcome = "AlreadyInRegistry"
    /\ Lookup(REGISTRY, "dummy") = {"g"}
    /\ Lookup(REGISTRY, "simple") = {}
    /\ sysModules["proxytest.backends.dummy"] = "absent"
    /\ sysModules["proxytest.backends.simple"] = "absent"

----------------------------------------------------------------------------
(* Claims about the backend lookup and a processor that raises, checked under *)
(* SpecRunner                                                                 *)

\* The Runner was left by the UnableToTest of the backend lookup
LookupFailed == excOut # None /\ excOut[1].reason = "backend"

\* C23: when the selected backend name is not bound in the registry (the registry
\* may be empty), constructing the Runner fails with UnableToTest; no cycle is
\* ever started, no record is started and the counters stay at zero.
C23_UnknownBackendRejected ==
    /\ [][(rpc = "new" /\ Lookup(REGISTRY, backendName) = {})
            => /\ rpc' = "raised"
               /\ excOut' = Some(Exc("UnableToTest", "backend", backendName, 0, 0))
               /\ status' = status]_vars
    /\ [](LookupFailed
            => /\ rpc \in {"raised", "exited"}
               /\ cycles = 0
               /\ ran_count = 0 /\ failed_count = 0 /\ completed = 0
               /\ \A i \in Records : StateOf(status[i]) = "unstarted"
               /\ exit_code \in {None, Some(ExitCode.unable_to_test)})

\* C23 witness: "simple" was selected while only "dummy" is bound; the run ended
\* with exit code 2 before any cycle, with both records Unstarted.
C23_Witness ==
    /\ LookupFailed
    /\ backendName = "simple"
    /\ REGISTRY # {}
    /\ rpc = "exited"
    /\ exit_code = Some(2)
    /\ cycles = 0
    /\ N = 2

\* The records of the batch that are Finished
FinishedRecords == { i \in Records : StateOf(status[i]) = "finished" }

\* C24: when the processor raises after it finished some records of the batch,
\* those records keep their terminal state and are counted: run_once adds their
\* number to ran_count and the number of them that failed to failed_count.
C24_FinishedCountedOnRaise ==
    [][(rpc = "in_cycle" /\ spc.pc = "raised")
          => /\ \A i \in FinishedRecords : status'[i] = status[i]
             /\ ran_count' = ran_count + Cardinality(FinishedRecords)
             /\ failed_count' = failed_count + Cardinality(FinishedWithError)]_vars

----------------------------------------------------------------------------
(* SpecOptions: the worker count on its way from the options to the         *)
(* dispatcher. The options object comes from the argument parser, which     *)
(* applies integer_argument to the value of --workers, or is built by hand  *)
(* ("such as from argparse or a namedtuple"); Runner.__init__ copies        *)
(* options.workers into the context, and the simple backend hands           *)
(* context.max_workers to process_requests.                                 *)

\* request.py: _non_negative(number) == max([0, (number or 0)])
NonNegative(number) ==
    IF NumTruthy(number) /\ number[1] > 0 THEN number[1] ELSE 0

\* ProxyTestContext(): max_workers defaults to None
ContextDefaultWorkers == Some(NonNegative(None))

\* integer_argument(value): cls(value or 0), then the sign check
IntegerArgument(value) ==
    IF value = <<>> THEN [outcome |-> "ok", value |-> 0]
    ELSE IF ~PyIntOk(value) THEN [outcome |-> "ValueError", value |-> 0]
    ELSE IF PyInt(value) < 0 THEN [outcome |-> "ArgumentTypeError", value |-> 0]
    ELSE [outcome |-> "ok", value |-> PyInt(value)]

\* The characters of a --workers value
ArgChars == { "-", "x", "0", "1", "2" }

\* What the command line gives for --workers: nothing, or a string
WorkerArgs == { None } \cup { Some(a) : a \in StringsUpTo(ArgChars, MaxArgLen) }

\* options.workers of an options object that was built by hand
ObjectWorkers == { None } \cup { Some(k) : k \in (0 - MaxWorkers)..MaxWorkers }

\* parser.parse_args(): --workers has type=integer_argument and default=0; argparse
\* reports an ArgumentTypeError or ValueError of the type function and exits
ParseArgs ==
    /\ options.pc = "argv"
    /\ LET r == IF options.arg = None THEN [outcome |-> "ok", value |-> 0]
                 ELSE IntegerArgument(options.arg[1])
       IN  options' = IF r.outcome = "ok"
                      THEN [pc |-> "parsed", arg |-> None, workers |-> Some(r.value)]
                      ELSE [pc |-> "SystemExit", arg |-> options.arg, workers |-> None]
    /\ UNCHANGED <<proxy_url, proxies>>

\* Runner.__init__: ContextBuilder.build_options copies options.workers
BuildOptions ==
    /\ options.pc \in {"parsed", "object"}
    /\ max_workers' = options.workers
    /\ options' = [options EXCEPT !.pc = "built"]
    /\ UNCHANGED <<disp, idx, queue, threads, unit, proxy_url, proxies>>

OptionsInit ==
    /\ \E n \in 0..MaxRecords : status = [i \in 1..n |-> RequestStatus]
    /\ now = 1
    /\ lastCall = NoCall
    /\ max_workers = ContextDefaultWorkers
    /\ disp = [pc |-> "idle", exc |-> ""]
    /\ idx = 0
    /\ queue = <<>>
    /\ threads = 0
    /\ unit = [i \in 1..Len(status) |-> NewUnit]
    /\ RunIdle /\ RegIdle
    /\ \/ \E a \in WorkerArgs : options = [pc |-> "argv", arg |-> a, workers |-> None]
       \/ \E w \in ObjectWorkers : options = [pc |-> "object", arg |-> None, workers |-> w]
    /\ proxy_url = <<>>
    /\ proxies = NoProxies

OptionsParse == ParseArgs /\ UNCHANGED <<recVars, dispVars, runVars, regVars>>

OptionsBuild == BuildOptions /\ UNCHANGED <<recVars, runVars, regVars>>

\* The processor runs: SimpleBackend.process calls process_requests
OptionsDispatch == options.pc = "built" /\ DispatchNext

OptionsNext == OptionsParse \/ OptionsBuild \/ OptionsDispatch

SpecOptions == OptionsInit /\ [][OptionsNext]_vars

\* C25: a negative worker count never reaches the dispatcher: whatever options
\* the Runner is given, the max_workers that process_requests is called with is
\* not negative.
C25_NoNegativeWorkers ==
    (options.pc = "built" /\ disp.pc # "idle")
        => (max_workers = None \/ max_workers[1] >= 0)

----------------------------------------------------------------------------
(* SpecMechanisms: the registration tools of backend.py on top of register: *)
(* BackendDecorator as a class and as an instance, AbstractBackendInstance, *)
(* and BackendMeta / AbstractBackend.                                       *)

\* A name that is None
NoName == [kind |-> "none", text |-> ""]

\* fn.__name__ of the callables: def dummy(...) and def simple(...)
NameOf(fn) == [kind |-> "str", text |-> IF fn = "f" THEN "dummy" ELSE "simple"]

\* The name passed to BackendDecorator(...) or AbstractBackendInstance(...)
MechanismNameArgs == NameArgs \cup { NoName }

\* The name attribute of a class: None as inherited, empty, or a string
ClassNameAttrs == { NoName, [kind |-> "str", text |-> ""], [kind |-> "str", text |-> "requests"] }

\* BackendDecorator.__new__ with a callable: @BackendDecorator
DecorateBare(registry, fn) == Register(registry, NameOf(fn), fn)

\* BackendDecorator.__new__ with a name, __init__, then __call__(f):
\* @BackendDecorator('name')
DecorateNamed(registry, name, fn) == Register(registry, name, fn)

\* AbstractBackendInstance.__init__: name = name or getattr(self, 'name'); a class
\* that leaves __call__ abstract cannot be instantiated
InstanceInit(registry, abstract, name, attr, inst) ==
    IF abstract THEN [registry |-> registry, outcome |-> "TypeError"]
    ELSE Register(registry, IF NameTruthy(name) THEN name ELSE attr, inst)

\* Mutant of MetaInit: the inspect.isabstract(cls) check is missing.
MetaInitAbstractToo(registry, abstract, attr, cls) ==
    IF ~NameTruthy(attr) THEN [registry |-> registry, outcome |-> "ImplementationError"]
    ELSE Register(registry, attr, cls)

\* BackendMeta.__init__, run by a class statement that derives AbstractBackend
MetaInit(registry, abstract, attr, cls) ==
    IF abstract THEN [registry |-> registry, outcome |-> "ok"]
    ELSE IF ~NameTruthy(attr) THEN [registry |-> registry, outcome |-> "ImplementationError"]
    ELSE Register(registry, attr, cls)

\* A registration tool was used: c is what it did
MechanismCall(op, c, name, proc) ==
    /\ REGISTRY' = c.registry
    /\ lastReg' = [op |-> op, name |-> name.text, proc |-> proc, outcome |-> c.outcome]
    /\ firstPass' = NoPass
    /\ UNCHANGED <<SUGGESTED_PACKAGES, sysModules, installed>>

\* @BackendDecorator above a function
DecorateBareCall(fn) ==
    MechanismCall("decorator", DecorateBare(REGISTRY, fn), NameOf(fn), fn)

\* @BackendDecorator(name) above a function
DecorateNamedCall(name, fn) ==
    MechanismCall("decorator_named", DecorateNamed(REGISTRY, name, fn), name, fn)

\* A class statement that derives AbstractBackendInstance: abc.ABC registers nothing
DefineInstanceClassCall(attr) ==
    MechanismCall("instance_class", [registry |-> REGISTRY, outcome |-> "ok"], attr, "")

\* A subclass of AbstractBackendInstance is instantiated
InstantiateCall(abstract, name, attr, inst) ==
    MechanismCall("instance", InstanceInit(REGISTRY, abstract, name, attr, inst),
                  IF NameTruthy(name) THEN name ELSE attr, inst)

\* A class statement that derives AbstractBackend
SubclassCall(abstract, attr, cls) ==
    MechanismCall("subclass", MetaInit(REGISTRY, abstract, attr, cls), attr, cls)

MechanismsInit ==
    /\ status = <<>>
    /\ now = 1
    /\ lastCall = NoCall
    /\ DispIdle /\ RunIdle /\ RegIdle /\ OptIdle

MechanismsDecorate ==
    /\ \E fn \in Processors : DecorateBareCall(fn)
    /\ UNCHANGED <<recVars, dispVars, runVars, optVars>>

MechanismsDecorateNamed ==
    /\ \E name \in MechanismNameArgs, fn \in Processors : DecorateNamedCall(name, fn)
    /\ UNCHANGED <<recVars, dispVars, runVars, optVars>>

MechanismsDefineInstanceClass ==
    /\ \E attr \in ClassNameAttrs : DefineInstanceClassCall(attr)
    /\ UNCHANGED <<recVars, dispVars, runVars, optVars>>

MechanismsInstantiate ==
    /\ \E abstract \in BOOLEAN, name \in MechanismNameArgs, attr \in ClassNameAttrs,
          inst \in Processors : InstantiateCall(abstract, name, attr, inst)
    /\ UNCHANGED <<recVars, dispVars, runVars, optVars>>

MechanismsSubclass ==
    /\ \E abstract \in BOOLEAN, attr \in ClassNameAttrs, cls \in Processors :
          SubclassCall(abstract, attr, cls)
    /\ UNCHANGED <<recVars, dispVars, runVars, optVars>>

MechanismsNext ==
    \/ MechanismsDecorate
    \/ MechanismsDecorateNamed
    \/ MechanismsDefineInstanceClass
    \/ MechanismsInstantiate
    \/ MechanismsSubclass
    \/ RegistryRegister
    \/ RegistryReset

SpecMechanisms == MechanismsInit /\ [][MechanismsNext]_vars

\* The step bound exactly name to obj and changed nothing else in the registry,
\* or it raised and changed nothing at all
BoundOrRaised(name, obj) ==
    \/ /\ lastReg'.outcome = "ok"
       /\ name.kind = "str" /\ name.text # ""
       /\ Lookup(REGISTRY, name.text) = {}
       /\ REGISTRY' = REGISTRY \cup { [name |-> name.text, proc |-> obj] }
       /\ Cardinality(REGISTRY') = Cardinality(REGISTRY) + 1
    \/ /\ lastReg'.outcome # "ok"
       /\ REGISTRY' = REGISTRY

\* A name that is None or empty
Nameless(name) == name.kind = "none" \/ name.text = ""

----------------------------------------------------------------------------
(* urls.py: expand_proxy_url. SpecUrls calls it on proxy strings written in  *)
(* every way the command line allows: with and without scheme, credentials, *)
(* host, port or port range, and with something after the port.             *)

\* def expand_proxy_url(proxy_url, default_port=8080)
DefaultPort == 8080

\* The letters that occur in the proxy strings
Letters == { "a", "d", "h", "p", "s", "t", "u", "x" }

\* urllib.parse.scheme_chars, as far as they occur
SchemeChars == Letters \cup { Digits[d] : d \in 1..Len(Digits) } \cup { "+", "-", "." }

\* The place of the first character of s that is in chars, Len(s) + 1 if none
FirstOf(s, chars) ==
    IF \E k \in 1..Len(s) : s[k] \in chars
    THEN CHOOSE k \in 1..Len(s) : s[k] \in chars /\ \A j \in 1..(k - 1) : s[j] \notin chars
    ELSE Len(s) + 1

\* urllib.parse.urlparse(url): what comes before the first ':' is the scheme if
\* it starts with a letter and holds scheme characters only; a netloc follows
\* '//' and ends before '/', '?' or '#'; the query follows '?'. (Fragments and
\* parameters are not among the strings modelled.)
UrlParse(url) ==
    LET i == IndexOf(url, ":")
        hasScheme == /\ i > 1
                     /\ url[1] \in Letters
                     /\ \A k \in 1..(i - 1) : url[k] \in SchemeChars
        rest == IF hasScheme THEN From(url, i + 1) ELSE url
        hasNetloc == StartsWith(rest, <<"/", "/">>)
        after == From(rest, 3)
        delim == FirstOf(after, {"/", "?", "#"})
        tail == IF hasNetloc THEN From(after, delim) ELSE rest
        q == IndexOf(tail, "?")
    IN  [scheme |-> IF hasScheme THEN Upto(url, i - 1) ELSE <<>>,
         netloc |-> IF hasNetloc THEN Upto(after, delim - 1) ELSE <<>>,
         path   |-> IF q = 0 THEN tail ELSE Upto(tail, q - 1),
         query  |-> IF q = 0 THEN <<>> ELSE From(tail, q + 1)]

\* int(port or 0) of _split_netloc: '' counts as 0
PortOk(s) == s = <<>> \/ PyIntOk(s)
PortValue(s) == IF s = <<>> THEN 0 ELSE PyInt(s)

\* _split_netloc(netloc)
SplitNetloc(netloc) ==
    LET hasAuth == CanSplit(netloc, "@")
        auth_prefix == IF hasAuth THEN Before(netloc, "@") \o <<"@">> ELSE <<>>
        host_port == IF hasAuth THEN After(netloc, "@") ELSE netloc
        hasPorts == CanSplit(host_port, ":")
        host == IF hasPorts THEN Before(host_port, ":") ELSE host_port
        ports == IF hasPorts THEN After(host_port, ":") ELSE <<>>
        hasRange == CanSplit(ports, "-")
        start_port == IF hasRange THEN Before(ports, "-") ELSE ports
        end_port == IF hasRange THEN After(ports, "-") ELSE ports
    IN  IF PortOk(start_port) /\ PortOk(end_port)
        THEN [outcome |-> "ok", auth_prefix |-> auth_prefix, host |-> host,
              start_port |-> PortValue(start_port), end_port |-> PortValue(end_port)]
        ELSE [outcome |-> "ValueError", auth_prefix |-> auth_prefix, host |-> host,
              start_port |-> 0, end_port |-> 0]

\* if not proxy_url.startswith('http'): proxy_url = 'http://' + proxy_url
WithScheme(url) ==
    IF StartsWith(url, <<"h", "t", "t", "p">>) THEN url
    ELSE <<"h", "t", "t", "p", ":", "/", "/">> \o url

\* list(expand_proxy_url(proxy_url, default_port)): the URLs, or the ValueError
ExpandProxyUrl(url, default_port) ==
    IF url = <<>> THEN [outcome |-> "ValueError", urls |-> <<>>]
    ELSE LET parsed == UrlParse(WithScheme(url))
             n == SplitNetloc(parsed.netloc)
             start_port == IF n.start_port # 0 THEN n.start_port ELSE default_port
             end_port == IF n.end_port # 0 THEN n.end_port ELSE start_port
         IN  IF (parsed.path # <<>> /\ parsed.path # <<"/">>) \/ parsed.query # <<>>
             THEN [outcome |-> "ValueError", urls |-> <<>>]
             ELSE IF n.outcome # "ok" THEN [outcome |-> "ValueError", urls |-> <<>>]
             ELSE [outcome |-> "ok",
                   urls |-> [k \in 1..(end_port - start_port + 1) |->
                               parsed.scheme \o <<":", "/", "/">> \o n.auth_prefix
                                   \o n.host \o <<":">> \o PyStrOfNat(start_port + k - 1)]]

\* The parts a proxy string is written from
Schemes == { <<>>, <<"h", "t", "t", "p", ":", "/", "/">>,
             <<"h", "t", "t", "p", "s", ":", "/", "/">> }
Auths == { <<>>, <<"u", "@">>, <<"u", ":", "p", "@">> }
Hosts == { <<>>, <<"a">>, <<"h", "t", "t", "p", "d">> }
Ports == 0..MaxPort
PortParts ==
    { <<>>, <<":">>, <<":", "x">>, <<":", ":">> }
        \cup { <<":">> \o PyStrOfNat(a) : a \in Ports }
        \cup { <<":">> \o PyStrOfNat(a) \o <<"-">> : a \in Ports }
        \cup { <<":", "-">> \o PyStrOfNat(b) : b \in Ports }
        \cup { <<":">> \o PyStrOfNat(a) \o <<"-">> \o PyStrOfNat(b) : a \in Ports, b \in Ports }
Trailers == { <<>>, <<"/">>, <<"/", "x">>, <<"?", "x">> }

ProxyStrings ==
    { scheme \o auth \o host \o port \o trailer :
        scheme \in Schemes, auth \in Auths, host \in Hosts, port \in PortParts,
        trailer \in Trailers }

UrlsInit ==
    /\ status = <<>>
    /\ now = 1
    /\ lastCall = NoCall
    /\ DispIdle /\ RunIdle /\ RegIdle
    /\ options = NoOptions
    /\ proxy_url \in ProxyStrings
    /\ proxies = NoProxies

\* list(expand_proxy_url(proxy_url))
UrlsExpand ==
    /\ proxies.outcome = "none"
    /\ proxies' = ExpandProxyUrl(proxy_url, DefaultPort)
    /\ UNCHANGED <<options, proxy_url, recVars, dispVars, runVars, regVars>>

UrlsNext == UrlsExpand

SpecUrls == UrlsInit /\ [][UrlsNext]_vars

\* The scheme of the endpoints: the one written, http:// when none is
SchemeOrHttp(scheme) == IF scheme = <<>> THEN <<"h", "t", "t", "p", ":", "/", "/">> ELSE scheme

\* The endpoints on the ports a..b of a host, in ascending order
Endpoints(scheme, auth, host, a, b) ==
    [k \in 1..(b - a + 1) |->
        SchemeOrHttp(scheme) \o auth \o host \o <<":">> \o PyStrOfNat(a + k - 1)]

\* expand_proxy_url was called
Expanded == proxies.outcome # "none"

\* C27: expand_proxy_url on HOST:A-B with A <= B yields the B-A+1 endpoints on the
\* ports A..B in ascending order, each with the scheme written (http when none),
\* the credentials and the host; HOST:A yields the one endpoint on A; HOST alone
\* yields the one endpoint on the default port; an empty string and a port that
\* is no number raise ValueError. (Ports are taken from 1 on.)
C27_ExpandRange ==
    Expanded =>
        /\ \A scheme \in Schemes, auth \in Auths, host \in Hosts \ {<<>>} :
              /\ \A a \in Ports \ {0}, b \in Ports \ {0} :
                    (a <= b /\ proxy_url = scheme \o auth \o host \o <<":">>
                                                \o PyStrOfNat(a) \o <<"-">> \o PyStrOfNat(b))
                        => /\ proxies.outcome = "ok"
                           /\ Len(proxies.urls) = b - a + 1
                           /\ proxies.urls = Endpoints(scheme, auth, host, a, b)
              /\ \A a \in Ports \ {0} :
                    proxy_url = scheme \o auth \o host \o <<":">> \o PyStrOfNat(a)
                        => proxies = [outcome |-> "ok",
                                      urls |-> Endpoints(scheme, auth, host, a, a)]
              /\ proxy_url = scheme \o auth \o host
                    => proxies = [outcome |-> "ok",
                                  urls |-> Endpoints(scheme, auth, host, DefaultPort, DefaultPort)]
              /\ proxy_url \in { scheme \o auth \o host \o <<":", "x">>,
                                  scheme \o auth \o host \o <<":", ":">> }
                    => proxies.outcome = "ValueError"
        /\ proxy_url = <<>> => proxies.outcome = "ValueError"

----------------------------------------------------------------------------
(* Claims about the lifecycle hooks, checked under SpecRecord *)

C29_FinishWithoutOutcome ==
    [][\A r \in Records, code \in StatusCodeArgs, hook \in HookBehaviours :
          CallFinish(r, NoError, None, code, hook)
              => /\ lastCall'.outcome = "ValueError"
                 /\ lastCall'.hook = "none"
                 /\ status'[r] = status[r]
                 /\ StateOf(status[r]) = "running"
                       => /\ StateOf(status'[r]) = "running"
                          /\ status'[r].finished = None
                          /\ status'[r].error = None
                          /\ status'[r].result = None
                          /\ status'[r].status_code = None]_vars

\* C29 witness: finish() without error and result was called on a Running
\* record: ValueError, and the record is still Running.
C29_Witness ==
    /\ lastCall.op = "finish"
    /\ lastCall.pre = "running"
    /\ lastCall.outcome = "ValueError"
    /\ lastCall.hook = "none"
    /\ StateOf(status[lastCall.rec]) = "running"

----------------------------------------------------------------------------
(* Claim about Runner.running, checked under SpecRunner *)

\* C30: Runner.running is true exactly while the runner is processing a
\* batch: true from the start of a cycle, false again once the cycle has ended
\* (completed, or aborted with UnableToTest), false during the sleep between
\* cycles and false when run() has returned normally.
C30_RunningOnlyInCycle ==
    /\ rpc = "in_cycle" => running
    /\ rpc \in {"new", "ready", "sleeping", "returned"} => ~running
    /\ (rpc = "raised" /\ LeftBy("UnableToTest")) => ~running

----------------------------------------------------------------------------
(* Claim about Runner.run, checked under SpecRunner *)

\* C31: without a repeat interval Runner.run returns after exactly one cycle
\* once the processor has returned with every record finished; with a repeat
\* interval it goes on cycle, sleep, cycle and never returns normally: it is
\* left only by UnableToTest or by an interrupt.
C31_OnceOrForever ==
    /\ [](~repeat => cycles <= 1)
    /\ []((~repeat /\ rpc = "returned") => (cycles = 1 /\ completed = 1))
    /\ [][(~repeat /\ rpc = "in_cycle" /\ spc.pc = "returned"
              /\ UnfinishedCount(status) = 0) => rpc' = "returned"]_vars
    /\ [](repeat => rpc # "returned")
    /\ []((repeat /\ rpc = "raised" /\ cycles >= 1)
             => (LeftBy("UnableToTest") \/ \E exc \in Interrupts : LeftBy(exc)))

----------------------------------------------------------------------------
(* SpecBatch: Runner.ContextBuilder builds the batch from the options, and   *)
(* the simple backend hands it to process_requests. A record of the batch is *)
(* known by its place; proxies.urls holds config.proxy_url of each record.   *)

\* DEFAULT_PROXY_PORT = 8080
DEFAULT_PROXY_PORT == 8080

\* NO_PROXY = 'none'
NO_PROXY == <<"n", "o", "n", "e">>

\* seq repeated k times
RECURSIVE Repeated(_, _)
Repeated(seq, k) == IF k = 0 THEN <<>> ELSE seq \o Repeated(seq, k - 1)

\* The sequences of seqs joined into one
RECURSIVE Chained(_)
Chained(seqs) == IF seqs = <<>> THEN <<>> ELSE Head(seqs) \o Chained(Tail(seqs))

\* The place of the first expansion that raised
FirstRaising(each) ==
    CHOOSE k \in 1..Len(each) :
        each[k].outcome # "ok" /\ \A j \in 1..(k - 1) : each[j].outcome = "ok"

\* _expand_proxy_urls for one proxy string: yield '' for NO_PROXY, else yield from
\* expand_proxy_url(proxy_string, default_port=DEFAULT_PROXY_PORT)
ExpandProxyString(proxy_string) ==
    IF proxy_string = NO_PROXY THEN [outcome |-> "ok", urls |-> << <<>> >>]
    ELSE ExpandProxyUrl(proxy_string, DEFAULT_PROXY_PORT)

\* A generator that yields from each of these expansions in turn: the URLs it
\* yields, and the exception that ends it at the first expansion that raises; the
\* ValueError of expand_proxy_url is raised again as Exception
YieldFromEach(each) ==
    IF \E k \in 1..Len(each) : each[k].outcome # "ok"
    THEN [outcome |-> "Exception",
          urls |-> Chained([k \in 1..(FirstRaising(each) - 1) |-> each[k].urls])]
    ELSE [outcome |-> "ok", urls |-> Chained([k \in 1..Len(each) |-> each[k].urls])]

\* Mutant of ExpandProxyUrls: the proxy strings are taken from the last to the
\* first.
ExpandProxyUrlsBackwards(proxy_strings) ==
    YieldFromEach([k \in 1..Len(proxy_strings) |->
                      ExpandProxyString(proxy_strings[Len(proxy_strings) + 1 - k])])

\* ContextBuilder._expand_proxy_urls(proxy_strings): the URLs of every proxy
\* string, in the order of the strings
ExpandProxyUrls(proxy_strings) ==
    YieldFromEach([k \in 1..Len(proxy_strings) |-> ExpandProxyString(proxy_strings[k])])

\* RequestConfig(proxy_url=proxy_url or None, url=options.test_url, ...):
\* ValueError('URL is required!') without a url
RequestConfig(url, test_url) ==
    IF test_url = <<>> THEN [outcome |-> "ValueError", proxy_url |-> None]
    ELSE [outcome |-> "ok", proxy_url |-> IF url = <<>> THEN None ELSE Some(url)]

\* The loops of _make_requests_from_options over the generator e of the URLs:
\* for _ in range(0, options.number), a RequestInfo for each URL as it is yielded;
\* the first exception, of RequestConfig or of the generator, ends them
RequestsOf(e, opts) ==
    IF opts.number = 0 THEN [outcome |-> "ok", urls |-> <<>>]
    ELSE IF \E k \in 1..Len(e.urls) : RequestConfig(e.urls[k], opts.test_url).outcome # "ok"
         THEN [outcome |-> "ValueError", urls |-> <<>>]
    ELSE IF e.outcome # "ok" THEN [outcome |-> e.outcome, urls |-> <<>>]
    ELSE [outcome |-> "ok",
          urls |-> Repeated([k \in 1..Len(e.urls) |->
                                RequestConfig(e.urls[k], opts.test_url).proxy_url],
                            opts.number)]

\* list(ContextBuilder._make_requests_from_options())
MakeRequestsFromOptions(opts) == RequestsOf(ExpandProxyUrls(opts.proxies), opts)

\* build_requests: except ValueError as e: raise UnableToTest('Invalid
\* configuration: ...'); any other exception passes through
ExceptValueError(r) ==
    IF r.outcome = "ValueError" THEN [outcome |-> "UnableToTest", urls |-> <<>>] ELSE r

\* ContextBuilder.build_requests
BuildRequests(opts) == ExceptValueError(MakeRequestsFromOptions(opts))

\* The proxy strings of the options: the direct call, a host, an ascending and a
\* descending port range, and a port that is no number
BatchProxyStrings ==
    { NO_PROXY, <<"a">>, <<"d", ":", "1", "-", "2">>, <<"d", ":", "2", "-", "1">>,
      <<"a", ":", "x">> }

\* The options objects: proxies (nargs='+'), --number, --url, --workers
BatchOptions ==
    { [pc |-> "parsed", proxies |-> p, number |-> k, test_url |-> u, workers |-> w] :
        p \in UNION { [1..m -> BatchProxyStrings] : m \in 1..MaxProxies },
        k \in 0..MaxNumber,
        u \in { <<>>, <<"u">> },
        w \in { Some(1), Some(2) } }

\* Runner.__init__ with these options: ContextBuilder.build() copies the worker
\* count and builds the records, or is left by an exception, which leaves
\* Runner(...) as well
BuildContext ==
    /\ options.pc = "parsed"
    /\ proxies' = BuildRequests(options)
    /\ IF proxies'.outcome = "ok"
       THEN /\ options' = [options EXCEPT !.pc = "built"]
            /\ status' = [i \in 1..Len(proxies'.urls) |-> RequestStatus]
            /\ unit' = [i \in 1..Len(proxies'.urls) |-> NewUnit]
            /\ UNCHANGED <<rpc, excOut>>
       ELSE /\ options' = [options EXCEPT !.pc = "raised"]
            /\ rpc' = "raised"
            /\ excOut' = Some(Exc(proxies'.outcome, "configuration", "", 0, 0))
            /\ UNCHANGED <<status, unit>>
    /\ max_workers' = options.workers
    /\ UNCHANGED <<now, lastCall, disp, idx, queue, threads, proxy_url, spc, start_time,
                   failed_count, ran_count, cycles, completed, repeat, backendName,
                   exit_code, regVars>>

BatchInit ==
    /\ status = <<>>
    /\ now = 1
    /\ lastCall = NoCall
    /\ max_workers = ContextDefaultWorkers
    /\ disp = [pc |-> "idle", exc |-> ""]
    /\ idx = 0
    /\ queue = <<>>
    /\ threads = 0
    /\ unit = <<>>
    /\ RunIdle /\ RegIdle
    /\ options \in BatchOptions
    /\ proxy_url = <<>>
    /\ proxies = NoProxies

BatchBuild == BuildContext

\* The processor runs on a batch of up to MaxRecords records: SimpleBackend.process
\* calls process_requests
BatchDispatch == options.pc = "built" /\ N <= MaxRecords /\ DispatchNext

\* _run_from_command_line is left by what left Runner(...)
BatchCommandLineReturn == options.pc = "raised" /\ CommandLineReturn

BatchNext == BatchBuild \/ BatchDispatch \/ BatchCommandLineReturn

SpecBatch == BatchInit /\ [][BatchNext]_vars

----------------------------------------------------------------------------
(* Claims about the batch, checked under SpecBatch *)

\* The records one proxy string stands for: the direct call for NO_PROXY, else
\* its endpoints in the order expand_proxy_url yields them
RecordsOfString(s) ==
    IF s = NO_PROXY THEN <<None>>
    ELSE [k \in 1..Len(ExpandProxyUrl(s, DEFAULT_PROXY_PORT).urls) |->
             Some(ExpandProxyUrl(s, DEFAULT_PROXY_PORT).urls[k])]

\* The records of one repetition: those of each proxy string, in input order
OneRepetition(strings) == Chained([k \in 1..Len(strings) |-> RecordsOfString(strings[k])])

\* C32: the batch built from the options holds, for each of the `number`
\* repetitions in turn, one record per expanded endpoint, in the order of the
\* input proxy list with each port range ascending; its size is number times
\* the number of expanded endpoints; and the dispatcher submits (or calls) the
\* records in exactly this order, first to last.
C32_BatchOrder ==
    /\ [](options.pc = "built" =>
            /\ N = options.number * Len(OneRepetition(options.proxies))
            /\ Len(proxies.urls) = N
            /\ \A r \in 1..options.number, k \in 1..Len(OneRepetition(options.proxies)) :
                  proxies.urls[(r - 1) * Len(OneRepetition(options.proxies)) + k]
                      = OneRepetition(options.proxies)[k]
            /\ (options.number >= 1 /\ options.proxies[1] = <<"d", ":", "1", "-", "2">>)
                  => /\ proxies.urls[1] = Some(<<"h", "t", "t", "p", ":", "/", "/", "d", ":", "1">>)
                     /\ proxies.urls[2] = Some(<<"h", "t", "t", "p", ":", "/", "/", "d", ":", "2">>))
    /\ [][options.pc = "built" =>
            \A i \in Records :
                (unit[i].pc = "new" /\ unit'[i].pc # "new")
                    => /\ i = idx + 1
                       /\ \A j \in 1..(i - 1) : unit[j].pc # "new"]_vars

\* C32 witness: two proxy strings gave a batch of two different records, and the
\* dispatcher has submitted both and returned.
C32_Witness ==
    /\ options.pc = "built"
    /\ Len(options.proxies) = 2
    /\ N = 2
    /\ proxies.urls[1] # proxies.urls[2]
    /\ idx = 2
    /\ disp.pc = "returned"

\* The options name a proxy string that expand_proxy_url rejects with ValueError
InvalidProxyGiven ==
    \E k \in 1..Len(options.proxies) :
        /\ options.proxies[k] # NO_PROXY
        /\ ExpandProxyUrl(options.proxies[k], DEFAULT_PROXY_PORT).outcome = "ValueError"

\* C33: an invalid proxy string in the options makes building the batch fail
\* with UnableToTest ('Invalid configuration'): no batch is built, no cycle
\* starts, and the command-line run returns the unable-to-test code.
C33_InvalidProxyIsUnableToTest ==
    (options.pc # "parsed" /\ InvalidProxyGiven)
        => /\ options.pc = "raised"
           /\ proxies.outcome = "UnableToTest"
           /\ LeftBy("UnableToTest")
           /\ N = 0 /\ cycles = 0 /\ disp.pc = "idle"
           /\ rpc \in {"exited", "crashed"} => exit_code = Some(ExitCode.unable_to_test)

----------------------------------------------------------------------------
(* Claim about exceptions that leave a unit, checked under SpecCycle *)

\* C34: an exception that leaves a unit of the dispatcher (such as one raised
\* by a lifecycle hook in start() or finish()) aborts the cycle and reaches the
\* Runner as UnableToTest, for every worker count, whether it was raised
\* before or after the record's finished timestamp was set: a cycle in which a
\* unit raised never completes, it ends in UnableToTest.
C34_EscapedExceptionSurfaces ==
    [][(rpc = "in_cycle" /\ rpc' # "in_cycle" /\ \E i \in Records : unit[i].pc = "raised")
          => /\ rpc' = "raised"
             /\ excOut' # None
             /\ excOut'[1].type = "UnableToTest"
             /\ completed' = completed]_vars

----------------------------------------------------------------------------
(* Claims about the end of a cycle, checked under SpecRunner *)

\* C35: for every batch size, the empty batch included, and whatever the
\* processor does, run_once either completes the cycle or raises UnableToTest:
\* no exception of another type leaves it (an interrupt of the main thread
\* aside).
C35_OnlyUnableToTestEscapes ==
    [][(rpc = "in_cycle" /\ rpc' # "in_cycle")
          => \/ /\ rpc' \in {"sleeping", "returned"}
                /\ completed' = completed + 1
                /\ excOut' = None
             \/ /\ rpc' = "raised"
                /\ excOut' # None
                /\ excOut'[1].type \in {"UnableToTest"} \cup Interrupts]_vars

\* The records on which the processor called both start() and finish() during
\* the cycle: the status object is of this call, and it is finished
ProcessedInCycle == { i \in Records : i \in spc.fresh /\ NumTruthy(status[i].finished) }

\* C36: in a repeating run, when the processor returns in a cycle after the
\* first without having called start() and finish() on some record during that
\* cycle, run_once raises UnableToTest for the cycle and counts no outcome of an
\* earlier cycle.
C36_NoStaleOutcome ==
    [][(rpc = "in_cycle" /\ spc.pc = "returned" /\ cycles >= 2
            /\ ProcessedInCycle # Records)
          => /\ rpc' = "raised"
             /\ excOut' # None
             /\ excOut'[1].type = "UnableToTest"
             /\ ran_count' = ran_count
             /\ failed_count' = failed_count]_vars

\* C38: after any sequence of cycles ran_count is N times the number of
\* completed cycles and 0 <= failed_count <= ran_count; the counters change
\* only at the successful end of a cycle, and a cycle that aborts with
\* UnableToTest leaves both unchanged.
C38_CountersFollowCompleted ==
    /\ [](ran_count = N * completed /\ 0 <= failed_count /\ failed_count <= ran_count)
    /\ [][(ran_count' # ran_count \/ failed_count' # failed_count)
            => (rpc = "in_cycle" /\ rpc' \in {"sleeping", "returned"}
                  /\ completed' = completed + 1)]_vars
    /\ [][(rpc = "in_cycle" /\ rpc' = "raised")
            => (ran_count' = ran_count /\ failed_count' = failed_count)]_vars

----------------------------------------------------------------------------
(* Claims about a second discovery pass, checked under SpecRegistry *)

\* The k-th module was loaded by an earlier pass
AlreadyLoaded(k) ==
    ~BackendModules[k].underscore /\ sysModules[BackendModules[k].name] = "flagged"

\* The first module, in discovery order, that an earlier pass loaded
FirstLoaded ==
    CHOOSE k \in 1..Len(BackendModules) :
        AlreadyLoaded(k) /\ \A j \in 1..(k - 1) : ~AlreadyLoaded(j)

\* The packages of the modules before the n-th that miss a dependency
MissingBefore(n) ==
    Chained([k \in 1..(n - 1) |->
                IF MissingDependencies(k) THEN BackendModules[k].packages ELSE <<>>])

\* A pass of find_backends() begins right after a first pass, with no
\* reset_backends() and no register() in between
SecondPass == lastReg'.op = "find" /\ firstPass.state \in {"found", "repeated"}

----------------------------------------------------------------------------
(* Claim about descending port ranges, checked under SpecUrls *)

\* C40: expand_proxy_url on a descending range HOST:A-B with A > B > 0 raises
\* no error and yields no endpoint, whatever scheme and credentials are written.
C40_DescendingRangeEmpty ==
    Expanded =>
        \A scheme \in Schemes, auth \in Auths, host \in Hosts \ {<<>>} :
            \A a \in Ports, b \in Ports :
                (a > b /\ b > 0 /\ proxy_url = scheme \o auth \o host \o <<":">>
                                                \o PyStrOfNat(a) \o <<"-">> \o PyStrOfNat(b))
                    => proxies = [outcome |-> "ok", urls |-> <<>>]

----------------------------------------------------------------------------
(* backends/aiohttp/_aiohttp_python35.py: the aiohttp backend runs the batch on *)
(* the event loop of the calling thread, one asyncio task per record, a chunk   *)
(* of tasks at a time. disp.pc is where _process_requests_coroutine is, idx is  *)
(* the loop variable i, unit[i] is the task of record i.                        *)

\* batch_size = context.max_workers or len(context.requests)
BatchSize(mw, n) == IF NumTruthy(mw) THEN mw[1] ELSE n

\* context.requests[i: i + batch_size], as record numbers
Slice(i, batch_size) == { r \in Records : i < r /\ r <= i + batch_size }

\* tasks.append(asyncio.ensure_future(_process_request(...))) for each record of
\* the slice: the tasks wait for the loop to run them
EnsureFutures(slice) ==
    [r \in Records |-> IF r \in slice THEN [unit[r] EXCEPT !.pc = "queued"] ELSE unit[r]]

\* _process_request, the try/except/else around session.get, raise_for_status and
\* response.text(): the finish() call it makes for each outcome
AioAfterFetch(fetch) ==
    IF fetch = "ok"
    THEN [error |-> NoError, result |-> Some("body")]
    ELSE [error |-> FetchException(fetch), result |-> None]

\* loop.run_until_complete(_process_requests_coroutine(context)) begins:
\* range(0, len, 0) raises ValueError, an empty range (no record, or a negative
\* step) runs no task, else the tasks of the first slice are created
AioCall ==
    /\ disp.pc = "idle"
    /\ idx' = 0
    /\ IF BatchSize(max_workers, N) = 0
       THEN /\ disp' = [pc |-> "raised", exc |-> "ValueError"]
            /\ unit' = unit
       ELSE IF N = 0 \/ BatchSize(max_workers, N) < 0
       THEN /\ disp' = [pc |-> "returned", exc |-> ""]
            /\ unit' = unit
       ELSE /\ disp' = [pc |-> "gather", exc |-> ""]
            /\ unit' = EnsureFutures(Slice(0, BatchSize(max_workers, N)))
    /\ UNCHANGED <<max_workers, queue, threads, recVars, runVars, regVars, optVars>>

\* The loop runs the first step of the oldest task not yet run: request.start(),
\* then the task waits for the response. An exception of the start hook ends the task.
AioStart ==
    /\ disp.pc = "gather"
    /\ \E i \in Records :
          /\ unit[i].pc = "queued"
          /\ \A j \in 1..(i - 1) : unit[j].pc # "queued"
          /\ \E hook \in HookBehaviours :
                /\ status' = [status EXCEPT ![i] = InfoStart(status[i], now, hook).status]
                /\ unit' = [unit EXCEPT ![i] =
                      [@ EXCEPT !.calls = @ + 1,
                                !.by = @ \cup {Caller},
                                !.starts = @ + 1,
                                !.pc = IF hook = "raises" THEN "raised" ELSE "running"]]
    /\ UNCHANGED <<now, lastCall, max_workers, disp, idx, queue, threads,
                   runVars, regVars, optVars>>

\* The response of a waiting task arrives or fails: request.finish(). An
\* exception of the end hook ends the task.
AioFinish ==
    /\ disp.pc = "gather"
    /\ \E i \in Records, fetch \in FetchOutcomes, hook \in HookBehaviours :
          /\ unit[i].pc = "running"
          /\ status' = [status EXCEPT ![i] =
                InfoFinish(status[i], now, AioAfterFetch(fetch).error,
                           AioAfterFetch(fetch).result, None, hook).status]
          /\ unit' = [unit EXCEPT ![i] =
                [@ EXCEPT !.fetch = fetch,
                          !.finishes = @ + 1,
                          !.pc = IF hook = "raises" THEN "raised" ELSE "returned"]]
    /\ UNCHANGED <<now, lastCall, max_workers, disp, idx, queue, threads,
                   runVars, regVars, optVars>>

\* await asyncio.gather(*tasks) returns when every task of the slice has: the
\* for loop takes the next slice, or the coroutine returns after the last one
AioGathered ==
    /\ disp.pc = "gather"
    /\ \A r \in Slice(idx, BatchSize(max_workers, N)) : unit[r].pc = "returned"
    /\ idx' = idx + BatchSize(max_workers, N)
    /\ IF idx' >= N
       THEN /\ disp' = [pc |-> "returned", exc |-> ""]
            /\ unit' = unit
       ELSE /\ disp' = disp
            /\ unit' = EnsureFutures(Slice(idx', BatchSize(max_workers, N)))
    /\ UNCHANGED <<max_workers, queue, threads, recVars, runVars, regVars, optVars>>

\* await asyncio.gather(*tasks) raises the exception of a task as soon as the loop
\* comes back to the coroutine, which is after the first step of every task of
\* the slice: the coroutine is left, run_until_complete raises, and the tasks
\* still waiting are not run any further
AioRaised ==
    /\ disp.pc = "gather"
    /\ \E r \in Records : unit[r].pc = "raised"
    /\ \A r \in Records : unit[r].pc # "queued"
    /\ disp' = [pc |-> "raised", exc |-> "HookError"]
    /\ UNCHANGED <<max_workers, idx, queue, threads, unit, recVars, runVars, regVars, optVars>>

\* The worker count is one of those of the dispatcher's specification or one
\* that an options object built by hand carries (ContextBuilder copies it as it is)
AioInit ==
    /\ \E n \in 0..MaxBatch : status = [i \in 1..n |-> RequestStatus]
    /\ now = 1
    /\ lastCall = NoCall
    /\ max_workers \in WorkerCounts(Len(status)) \cup ObjectWorkers
    /\ disp = [pc |-> "idle", exc |-> ""]
    /\ idx = 0
    /\ queue = <<>>
    /\ threads = 0
    /\ unit = [i \in 1..Len(status) |-> NewUnit]
    /\ RunIdle /\ RegIdle /\ OptIdle

AioNext ==
    \/ AioCall
    \/ AioStart
    \/ AioFinish
    \/ AioGathered
    \/ AioRaised

SpecAiohttp == AioInit /\ [][AioNext]_vars

----------------------------------------------------------------------------
(* Claim about the aiohttp strategy, checked under SpecAiohttp *)

\* The chunk size: W, or N when W is 0 or unset
ChunkSize == IF IntOrZero(max_workers) > 0 THEN IntOrZero(max_workers) ELSE N

\* The number of the chunk that record i belongs to, counted from 0
ChunkOf(i) == (i - 1) \div ChunkSize

\* The records that are Running
RunningRecords == { i \in Records : StateOf(status[i]) = "running" }

\* C37: the aiohttp strategy processes the batch in consecutive chunks of size W
\* (N when W is 0 or unset): a record of a later chunk is started only when every
\* record of the chunks before it is Finished, so at most W records are Running
\* at any time; every record is started and finished exactly once: never twice,
\* and once each when the strategy has returned.
C37_ChunkedProcessing ==
    /\ \A i \in Records, j \in Records :
          (ChunkOf(i) < ChunkOf(j) /\ StateOf(status[j]) # "unstarted")
              => StateOf(status[i]) = "finished"
    /\ Cardinality(RunningRecords) <= ChunkSize
    /\ \A i \in Records : unit[i].starts <= 1 /\ unit[i].finishes <= 1
    /\ disp.pc = "returned"
          => \A i \in Records :
                /\ unit[i].starts = 1
                /\ unit[i].finishes = 1
                /\ StateOf(status[i]) = "finished"

====
